---- MODULE Spec2Model ----
(***************************************************************************)
(* A model of the pgs crate: the stream parser and display-set assembler   *)
(* (pgs_parser.rs, pgs_display_set.rs) and the RLE image decoder with its  *)
(* colour converter (pgs_decode_rle.rs).                                   *)
(*                                                                         *)
(* Specifications:                                                         *)
(*   Spec      PgsParser::parse (read loop, then the display-set fold) and *)
(*             the accessors of the display sets it returns.               *)
(*   SpecRle   decode_rle, one action per iteration of its main loop.      *)
(*   SpecColor the palette lookups get_gray_color / get_argb_color /       *)
(*             get_pixel_color applied to bounded inputs.                  *)
(*   SpecCalc  calc_red / calc_green / calc_blue / get_argb / calc_gray    *)
(*             applied to every luminance and transparency.                *)
(*   SpecBytes PgsParser::parse over the bytes of a file, and the header   *)
(*             and body parsers applied to byte blocks.                    *)
(*   SpecBuffer a PgsMemoryBuffer under any sequence of seeks and reads.   *)
(*                                                                         *)
(* A u32 pixel is kept as the tuple of its four bytes, most significant    *)
(* first (<<a, r, g, b>> is (a<<24)|(r<<16)|(g<<8)|b): TLC's integers are  *)
(* 32-bit signed and cannot hold a pixel with a top byte of 128 or more.   *)
(***************************************************************************)
EXTENDS Integers, Sequences, FiniteSets

VARIABLES
    \* PgsParser (pgs_parser.rs:16-20) and the position of parse()
    segments,       \* Vec<PgsSegment>
    display_sets,   \* Vec<PgsDisplaySet>
    ds,             \* the accumulator of create_display_sets
    idx,            \* how many segments the fold has consumed
    pc,             \* "read" | "fold" | "done" | "failed"
    parse_error,    \* the Err parse() returned, "" when none
    call,           \* the last accessor call on a returned display set
    \* decode_rle (pgs_decode_rle.rs:81-146)
    rle_in,         \* its arguments: pds, ods, gray
    rle,            \* its locals: buffer position, row, col, pixels, ...
    written,        \* history: the cells written so far, with their colour
    \* palette lookup
    lookup,         \* one call of a palette lookup and its result
    \* colour conversion
    calc,           \* the arguments of one conversion call and its result
    \* parsing bytes
    sup,            \* the file parse() reads, and the history of its reads
    pcall,          \* one call of a header or body parser on a byte block
    \* PgsMemoryBuffer (pgs_memory_buffer.rs:160-163)
    membuf          \* buffer, position, and the last call made on it

parserVars == <<segments, display_sets, ds, idx, pc, parse_error, call>>
rleVars == <<rle_in, rle, written>>
colorVars == <<lookup>>
calcVars == <<calc>>
byteVars == <<sup, pcall>>
bufVars == <<membuf>>
vars == <<segments, display_sets, ds, idx, pc, parse_error, call,
          rle_in, rle, written, lookup, calc, sup, pcall, membuf>>

(***************************************************************************)
(* Bounds of the model.                                                    *)
(***************************************************************************)
\* Segments read from one stream.
MaxSegs == 5
\* Bytes of an RLE payload.
MaxLen == 4
\* Bytes of a PgsMemoryBuffer in SpecBuffer.
MaxBuf == 4
\* ODS width and height in SpecRle.
MaxW == 2
MaxH == 2
\* Colour indices looked up in SpecColor: 0..MaxIdx.
MaxIdx == 3
\* Entries of a palette in SpecColor.
MaxPal == 2
\* chunks in a file
MaxChunks == 3
\* bytes in a block handed to a header or body parser
MaxBlock == 44
\* composition objects in a PCS body, windows in a WDS body
MaxObjects == 2
\* the object data length an ODS body declares
MaxDeclared == 8

(***************************************************************************)
(* Values.                                                                 *)
(***************************************************************************)
None == [some |-> FALSE]
Some(x) == [some |-> TRUE, val |-> x]

Ok(v) == [tag |-> "Ok", val |-> v]
Err(e) == [tag |-> "Err", val |-> e]
\* A Rust panic: no value is returned, the thread unwinds.
Panic(msg) == [tag |-> "Panic", val |-> msg]

\* A u32 from its bytes, most significant first.
U32(b3, b2, b1, b0) == <<b3, b2, b1, b0>>
Zero32 == U32(0, 0, 0, 0)

Min(a, b) == IF a < b THEN a ELSE b

(***************************************************************************)
(* Colour conversion, pgs_decode_rle.rs:12-42.                             *)
(*                                                                         *)
(* calc_red/green/blue compute in f32, clamp to [0, 255] and truncate.     *)
(* The f32 result truncates to the same byte as the exact decimal          *)
(* expression for every u8 input (compared exhaustively, 2^24 inputs for   *)
(* green), so the model computes num \div den on scaled integers.          *)
(***************************************************************************)
ClampTrunc(num, den) ==
    IF num < 0 THEN 0
    ELSE IF num >= 255 * den THEN 255
    ELSE num \div den

\* calc_red with the chroma offset 0x7F.
calc_red_Offset7F(y, cr) == ClampTrunc(1000 * y + 1402 * (cr - 127), 1000)

calc_red(y, cr) == ClampTrunc(1000 * y + 1402 * (cr - 128), 1000)

calc_green(y, cb, cr) ==
    ClampTrunc(100000 * y - 34414 * (cb - 128) - 71414 * (cr - 128), 100000)

calc_blue(y, cb) == ClampTrunc(1000 * y + 1772 * (cb - 128), 1000)

get_argb(y, cb, cr, transparency) ==
    U32(transparency, calc_red(y, cr), calc_green(y, cb, cr), calc_blue(y, cb))

\* calc_gray dividing by 256 (a shift) instead of 255.
calc_gray_Div256(transparency, luminance) ==
    LET tmp == 255 - ((transparency * luminance) \div 256)
    IN  U32(0, tmp, tmp, tmp)

\* calc_gray without the inversion.
calc_gray_NoInvert(transparency, luminance) ==
    LET tmp == (transparency * luminance) \div 255
    IN  U32(0, tmp, tmp, tmp)

calc_gray(transparency, luminance) ==
    LET tmp == 255 - ((transparency * luminance) \div 255)
    IN  U32(0, tmp, tmp, tmp)

(***************************************************************************)
(* Palette lookup, pgs_decode_rle.rs:45-70.  A palette is the sequence     *)
(* pds.palette_entries; Rust indexes it from 0.                            *)
(***************************************************************************)
White == U32(0, 255, 255, 255)

\* The entry found by its palette_entry_id instead of its position.
get_gray_color_ById(color, pds) ==
    LET hits == { k \in 1..Len(pds.palette_entries) :
                    pds.palette_entries[k].palette_entry_id = color }
        first == CHOOSE k \in hits : \A j \in hits : k <= j
    IN  IF hits = {} THEN White
        ELSE calc_gray(pds.palette_entries[first].transparency,
                       pds.palette_entries[first].luminance)

get_gray_color(color, pds) ==
    IF color >= Len(pds.palette_entries)
    THEN White
    ELSE calc_gray(pds.palette_entries[color + 1].transparency,
                   pds.palette_entries[color + 1].luminance)

\* get_argb_color with 0xFFFFFFFF as the default colour.
get_argb_color_OpaqueDefault(color, pds) ==
    IF color >= Len(pds.palette_entries)
    THEN U32(255, 255, 255, 255)
    ELSE LET palette == pds.palette_entries[color + 1]
         IN  get_argb(palette.luminance, palette.color_difference_blue,
                      palette.color_difference_red, palette.transparency)

get_argb_color(color, pds) ==
    IF color >= Len(pds.palette_entries)
    THEN White
    ELSE LET palette == pds.palette_entries[color + 1]
         IN  get_argb(palette.luminance, palette.color_difference_blue,
                      palette.color_difference_red, palette.transparency)

get_pixel_color(color, pds, gray) ==
    IF gray THEN get_gray_color(color, pds) ELSE get_argb_color(color, pds)

(***************************************************************************)
(* Bit operations on non-negative integers, as the u8/u32 operators the    *)
(* decoder uses.                                                           *)
(***************************************************************************)
RECURSIVE BitAnd(_, _)
BitAnd(a, b) ==
    IF a = 0 \/ b = 0 THEN 0
    ELSE (a % 2) * (b % 2) + 2 * BitAnd(a \div 2, b \div 2)

RECURSIVE BitOr(_, _)
BitOr(a, b) ==
    IF a = 0 THEN b
    ELSE IF b = 0 THEN a
    ELSE (IF a % 2 = 1 \/ b % 2 = 1 THEN 1 ELSE 0) + 2 * BitOr(a \div 2, b \div 2)

RECURSIVE Pow2(_)
Pow2(n) == IF n = 0 THEN 1 ELSE 2 * Pow2(n - 1)

Shl(a, n) == a * Pow2(n)
Shr(a, n) == a \div Pow2(n)

byte_to_int(byte) == byte

(***************************************************************************)
(* decode_rle, pgs_decode_rle.rs:81-146.                                   *)
(*                                                                         *)
(* The locals of the function are one record:                              *)
(*   pos     buffer.pos(): payload bytes consumed                          *)
(*   row,col the cursor                                                    *)
(*   pixels  the matrix, a sequence of rows (Rust index i is i + 1 here)   *)
(*   count, color  the run length and palette index of the last literal    *)
(*           or run started (a literal is a run of 1)                      *)
(*   status  "loop" while the main loop runs, then how the call ended:     *)
(*           "Ok" (returns the matrix), "Err" (read_u8 failed with `?`)    *)
(*           or "Panic" (pixels[row][col] out of bounds)                   *)
(***************************************************************************)
\* The matrix built with width rows of height cells.
InitPixels_Transposed(ods) ==
    [r \in 1..ods.width |-> [c \in 1..ods.height |-> Zero32]]

\* vec![vec![0_u32; width]; height]
InitPixels(ods) == [r \in 1..ods.height |-> [c \in 1..ods.width |-> Zero32]]

RleStart(ods) ==
    [pos |-> 0, row |-> 0, col |-> 0, pixels |-> InitPixels(ods),
     count |-> 0, color |-> 0, iterations |-> 0, status |-> "loop"]

\* A failed read ending the loop as if the payload were exhausted.
ReadFail_ReturnsImage(st, pos) == [st EXCEPT !.pos = pos, !.status = "Ok"]

\* buffer.read_u8()? with the payload exhausted: the error is returned and
\* the position stays where the failed read found it.
ReadFail(st, pos) == [st EXCEPT !.pos = pos, !.status = "Err"]

\* The run written with the reads that preceded it taken back.
WriteRun_NoAdvance(st, in, count, color, pos) ==
    LET room == IF st.row >= Len(st.pixels) THEN 0
                ELSE IF st.col >= Len(st.pixels[st.row + 1]) THEN 0
                ELSE Len(st.pixels[st.row + 1]) - st.col
        fit == Min(count, room)
        px == get_pixel_color(color, in.pds, in.gray)
    IN  [st EXCEPT
            !.count = count,
            !.color = color,
            !.col = st.col + fit,
            !.pixels = IF fit = 0 THEN @
                       ELSE [@ EXCEPT ![st.row + 1] =
                               [c \in 1..Len(@) |->
                                  IF c - 1 >= st.col /\ c - 1 < st.col + fit
                                  THEN px ELSE @[c]]],
            !.status = IF fit < count THEN "Panic" ELSE "loop"]

\* The run clamped to the end of the row instead of indexing past it.
WriteRun_Clamps(st, in, count, color, pos) ==
    LET room == IF st.row >= Len(st.pixels) THEN 0
                ELSE IF st.col >= Len(st.pixels[st.row + 1]) THEN 0
                ELSE Len(st.pixels[st.row + 1]) - st.col
        fit == Min(count, room)
        px == get_pixel_color(color, in.pds, in.gray)
    IN  [st EXCEPT
            !.pos = pos,
            !.count = count,
            !.color = color,
            !.col = st.col + fit,
            !.pixels = IF fit = 0 THEN @
                       ELSE [@ EXCEPT ![st.row + 1] =
                               [c \in 1..Len(@) |->
                                  IF c - 1 >= st.col /\ c - 1 < st.col + fit
                                  THEN px ELSE @[c]]],
            !.status = "loop"]

\* for _ in 0..count { pixels[row][col] = get_pixel_color(color, ..); col += 1 }
\* after the reads that left the buffer at pos. Vec indexing is checked
\* against the lengths of the vectors: the cells inside the matrix are
\* written one by one, and the first index outside it panics.
WriteRun(st, in, count, color, pos) ==
    LET room == IF st.row >= Len(st.pixels) THEN 0
                ELSE IF st.col >= Len(st.pixels[st.row + 1]) THEN 0
                ELSE Len(st.pixels[st.row + 1]) - st.col
        fit == Min(count, room)
        px == get_pixel_color(color, in.pds, in.gray)
    IN  [st EXCEPT
            !.pos = pos,
            !.count = count,
            !.color = color,
            !.col = st.col + fit,
            !.pixels = IF fit = 0 THEN @
                       ELSE [@ EXCEPT ![st.row + 1] =
                               [c \in 1..Len(@) |->
                                  IF c - 1 >= st.col /\ c - 1 < st.col + fit
                                  THEN px ELSE @[c]]],
            !.status = IF fit < count THEN "Panic" ELSE "loop"]

\* The end of a line with col left where it was.
EndOfLine_KeepsCol(st, len) ==
    [st EXCEPT !.pos = st.pos + 2,
               !.row = st.row + 1,
               !.status = IF st.pos + 2 >= len THEN "Ok" ELSE "loop"]

\* 0x00 0x00: the end of a line.
EndOfLine(st, len) ==
    [st EXCEPT !.pos = st.pos + 2,
               !.row = st.row + 1,
               !.col = 0,
               !.status = IF st.pos + 2 >= len THEN "Ok" ELSE "loop"]

\* The escapes with the long counts taken from the length byte alone.
Escape_LowByteOnly(st, in, data) ==
    LET buf == in.ods.object_data
        len == Len(buf)
        p == st.pos + 2
        sel == Shr(BitAnd(data, 192), 6)
    IN  CASE sel = 0 -> WriteRun(st, in, byte_to_int(data), 0, p)
          [] sel = 1 ->
               IF p >= len THEN ReadFail(st, p)
               ELSE WriteRun(st, in, byte_to_int(buf[p + 1]), 0, p + 1)
          [] sel = 2 ->
               IF p >= len THEN ReadFail(st, p)
               ELSE WriteRun(st, in, byte_to_int(BitAnd(data, 63)),
                             byte_to_int(buf[p + 1]), p + 1)
          [] sel = 3 ->
               IF p >= len THEN ReadFail(st, p)
               ELSE IF p + 1 >= len THEN ReadFail(st, p + 1)
               ELSE WriteRun(st, in, byte_to_int(buf[p + 1]),
                             byte_to_int(buf[p + 2]), p + 2)

\* 0x00 data with data # 0: the four run encodings, by the top two bits.
Escape(st, in, data) ==
    LET buf == in.ods.object_data
        len == Len(buf)
        p == st.pos + 2
        sel == Shr(BitAnd(data, 192), 6)
    IN  CASE sel = 0 -> WriteRun(st, in, byte_to_int(data), 0, p)
          [] sel = 1 ->
               IF p >= len THEN ReadFail(st, p)
               ELSE WriteRun(st, in,
                        BitOr(byte_to_int(buf[p + 1]),
                              Shl(byte_to_int(BitAnd(data, 63)), 8)),
                        0, p + 1)
          [] sel = 2 ->
               IF p >= len THEN ReadFail(st, p)
               ELSE WriteRun(st, in, byte_to_int(BitAnd(data, 63)),
                             byte_to_int(buf[p + 1]), p + 1)
          [] sel = 3 ->
               IF p >= len THEN ReadFail(st, p)
               ELSE IF p + 1 >= len THEN ReadFail(st, p + 1)
               ELSE WriteRun(st, in,
                        BitOr(byte_to_int(buf[p + 1]),
                              Shl(byte_to_int(BitAnd(data, 63)), 8)),
                        byte_to_int(buf[p + 2]), p + 2)

\* One iteration of `while buffer.pos()? < buffer_len`, entered with
\* st.pos < len.  iterations counts the iterations begun.
RleIteration(st, in) ==
    LET buf == in.ods.object_data
        len == Len(buf)
        b0 == buf[st.pos + 1]
        nx == IF b0 # 0
              THEN WriteRun(st, in, 1, byte_to_int(b0), st.pos + 1)
              ELSE IF st.pos + 1 >= len
              THEN ReadFail(st, st.pos + 1)
              ELSE IF buf[st.pos + 2] = 0
              THEN EndOfLine(st, len)
              ELSE Escape(st, in, buf[st.pos + 2])
    IN  [nx EXCEPT !.iterations = st.iterations + 1]

\* The exit refusing a payload that stops in the middle of a row.
RleExit_RejectsMidRow(st) ==
    [st EXCEPT !.status = IF st.col = 0 THEN "Ok" ELSE "Err"]

\* The loop condition is false: Ok(pixels).
RleExit(st) == [st EXCEPT !.status = "Ok"]

RECURSIVE RleRun(_, _)
RleRun(st, in) ==
    IF st.status # "loop" THEN st
    ELSE IF st.pos >= Len(in.ods.object_data) THEN RleExit(st)
    ELSE RleRun(RleIteration(st, in), in)

\* What the call hands to its caller.
RleResult(st) ==
    CASE st.status = "Ok" -> Ok(st.pixels)
      [] st.status = "Err" -> Err("File(UnexpectedEof)")
      [] st.status = "Panic" -> Panic("index out of bounds")
      [] OTHER -> None

decode_rle(pds, ods, gray) ==
    RleResult(RleRun(RleStart(ods), [pds |-> pds, ods |-> ods, gray |-> gray]))

(***************************************************************************)
(* PgsDisplaySet, pgs_display_set.rs.  A slot is None or Some(segment).    *)
(***************************************************************************)
PgsDisplaySet_new == [pcs |-> None, wds |-> None, pds |-> None, ods |-> None]

clean(d) == [d EXCEPT !.pcs = None, !.wds = None, !.pds = None, !.ods = None]

\* state() with Complete granted when either of PDS and ODS is present.
state_AnyOfPdsOds(d) ==
    IF d.pcs.some /\ d.wds.some
    THEN IF d.pds.some \/ d.ods.some THEN "Complete" ELSE "EmptyFrame"
    ELSE "Incomplete"

state(d) ==
    IF d.pcs.some /\ d.wds.some
    THEN IF d.pds.some /\ d.ods.some THEN "Complete" ELSE "EmptyFrame"
    ELSE "Incomplete"

\* Option::unwrap panics on None.
UnwrapPanic == Panic("called Option::unwrap() on a None value")

\* get_rle_image refusing only the Incomplete state.
get_rle_image_AcceptsEmptyFrame(d) ==
    IF state(d) = "Incomplete"
    THEN Err("IncompleteDisplaySet")
    ELSE IF ~d.ods.some THEN UnwrapPanic
    ELSE Ok(d.ods.val.body.object_data)

get_rle_image(d) ==
    IF state(d) # "Complete"
    THEN Err("IncompleteDisplaySet")
    ELSE IF ~d.ods.some THEN UnwrapPanic
    ELSE Ok(d.ods.val.body.object_data)

get_decoded_image(d, gray) ==
    IF state(d) # "Complete"
    THEN Err("IncompleteDisplaySet")
    ELSE IF ~d.ods.some \/ ~d.pds.some THEN UnwrapPanic
    ELSE decode_rle(d.pds.val.body, d.ods.val.body, gray)

(***************************************************************************)
(* Inputs.                                                                 *)
(***************************************************************************)
PaletteEntry(id, y, cr, cb, t) ==
    [palette_entry_id |-> id, luminance |-> y, color_difference_red |-> cr,
     color_difference_blue |-> cb, transparency |-> t]

\* The palette and the object of tests::test_rle_decoding
\* (pgs_decode_rle.rs:242-273).
TestPds ==
    [palette_entries |-> << PaletteEntry(0, 50, 100, 100, 0),
                            PaletteEntry(0, 150, 200, 200, 0) >>]

TestOds ==
    [width |-> 5, height |-> 2, object_data |-> <<0, 0, 1, 2, 1, 3, 2>>]

\* An ODS whose sequence flag is Last or Unknown has width = height = 0
\* (pgs_ods_segment.rs:98-104); here with a payload of one literal.
FlatOds == [width |-> 0, height |-> 0, object_data |-> <<1>>]

\* A palette whose entries differ from white in gray and in ARGB mode.
Pal3 ==
    [palette_entries |-> << PaletteEntry(0, 50, 100, 100, 255),
                            PaletteEntry(1, 150, 200, 200, 128),
                            PaletteEntry(2, 128, 128, 128, 64) >>]

NoPal == [palette_entries |-> << >>]

\* Payload bytes: 0x00, a literal inside the palette (0x02), and one escape
\* byte for each value of the top two bits (0x02 again, 0x40 and 0x41,
\* 0x82, 0xC0); as literals and colours the last four are outside it.
\* 0xFF is the escape byte and the length byte of the longest run, 0x3FFF.
RleBytes == {0, 2, 64, 65, 130, 192, 255}

RlePayloads == UNION { [1..n -> RleBytes] : n \in 0..MaxLen }

\* The segments read_segment can return: what the body parsers built.
\* rc is the identity of the Rc allocation: the ordinal of the segment.
Segment(kind, rc, body) == [kind |-> kind, rc |-> rc, body |-> body]

SegmentChoices(rc) ==
    { Segment("Pcs", rc, [segment |-> "PCS"]),
      Segment("Wds", rc, [segment |-> "WDS"]),
      Segment("Pds", rc, TestPds),
      Segment("Ods", rc, TestOds),
      Segment("Ods", rc, FlatOds),
      Segment("End", rc, [segment |-> "END"]) }

ReadErrors ==
    {"File(UnexpectedEof)", "ReadInvalidSegment", "InvalidSegmentDataLength"}

(***************************************************************************)
(* Byte reading, pgs_memory_buffer.rs.  A slice or buffer is a sequence of *)
(* bytes; pos is PgsMemoryBuffer::position, the count of bytes consumed,   *)
(* so the next byte read is data[pos + 1].                                 *)
(***************************************************************************)
EofError == "File(UnexpectedEof)"

\* read_exact of n bytes succeeds iff n bytes remain after pos.
Avail(data, pos, n) == pos + n <= Len(data)

\* BigEndian::read_u16 / read_u24 / read_u32 of the bytes after pos.
BE16(data, pos) == data[pos + 1] * 256 + data[pos + 2]

BE24(data, pos) == data[pos + 1] * 65536 + data[pos + 2] * 256 + data[pos + 3]

\* The four bytes taken least significant first.
BE32_LittleEndian(data, pos) == U32(data[pos + 4], data[pos + 3], data[pos + 2], data[pos + 1])

BE32(data, pos) == U32(data[pos + 1], data[pos + 2], data[pos + 3], data[pos + 4])

\* A run of reads of the given sizes, each ending in `?`: the position
\* after the last read that succeeded, and whether all of them did.
RECURSIVE ReadFields(_, _, _)
ReadFields(data, pos, sizes) ==
    IF sizes = << >> THEN [ok |-> TRUE, pos |-> pos]
    ELSE IF ~Avail(data, pos, Head(sizes)) THEN [ok |-> FALSE, pos |-> pos]
    ELSE ReadFields(data, pos + Head(sizes), Tail(sizes))

\* What a from_data call returns, with the position its buffer reached.
Parsed(v, pos) == [tag |-> "Ok", val |-> v, pos |-> pos]
Failed(e, pos) == [tag |-> "Err", val |-> e, pos |-> pos]
Panicked(msg, pos) == [tag |-> "Panic", val |-> msg, pos |-> pos]

(***************************************************************************)
(* PgsSegmentType::from and PgsSegmentHeader::from_data.                   *)
(***************************************************************************)
\* crate::pgs_const::PG, the 16-bit marker "PG" of a segment header.
PG == 20551

PGS_SEGMENT_HEADER_LENGTH == 13

PgsSegmentType_from(value) ==
    CASE value = 20 -> "PDS"
      [] value = 21 -> "ODS"
      [] value = 22 -> "PCS"
      [] value = 23 -> "WDS"
      [] value = 128 -> "END"
      [] OTHER -> "ERR"

PgsSegmentHeader_new(segment_type, pts, dts, segment_length) ==
    [segment_type |-> segment_type,
     segment_length |-> segment_length,
     presentation_timestamp |-> pts,
     decoding_timestamp |-> dts]

\* from_data without the comparison against PG.
PgsSegmentHeader_from_data_NoMagicCheck(data) ==
    IF Len(data) < PGS_SEGMENT_HEADER_LENGTH
    THEN Err("InvalidSegmentDataLength")
    ELSE Ok(PgsSegmentHeader_new(PgsSegmentType_from(data[11]), BE32(data, 2),
                                 BE32(data, 6), BE16(data, 11)))

\* from_data rejecting an unknown type tag itself.
PgsSegmentHeader_from_data_RejectsErr(data) ==
    IF Len(data) < PGS_SEGMENT_HEADER_LENGTH
    THEN Err("InvalidSegmentDataLength")
    ELSE IF BE16(data, 0) # PG \/ PgsSegmentType_from(data[11]) = "ERR"
    THEN Err("ReadInvalidSegment")
    ELSE Ok(PgsSegmentHeader_new(PgsSegmentType_from(data[11]), BE32(data, 2),
                                 BE32(data, 6), BE16(data, 11)))

\* The reads after the length test cannot fail: 2 + 4 + 4 + 1 + 2 = 13.
PgsSegmentHeader_from_data(data) ==
    IF Len(data) < PGS_SEGMENT_HEADER_LENGTH
    THEN Err("InvalidSegmentDataLength")
    ELSE IF BE16(data, 0) # PG
    THEN Err("ReadInvalidSegment")
    ELSE Ok(PgsSegmentHeader_new(PgsSegmentType_from(data[11]), BE32(data, 2),
                                 BE32(data, 6), BE16(data, 11)))

(***************************************************************************)
(* The body parsers.  Each takes the header and the body slice and returns *)
(* Parsed(segment, pos), Failed(error, pos) or Panicked(msg, pos), pos     *)
(* being the position of its PgsMemoryBuffer over the slice on return.     *)
(*                                                                         *)
(* checks is the build's overflow-checks setting: with it an integer       *)
(* subtraction that underflows panics, without it the result wraps.        *)
(***************************************************************************)
TooShort(header, data) == Len(data) < header.segment_length

\* The flag decoded by testing bit 0x40 alone.
PgsPcsObjectCroppedFlag_from_BitTest(value) ==
    IF BitAnd(value, 64) = 64 THEN "ForceCroppedImage" ELSE "Off"

PgsPcsObjectCroppedFlag_from(value) ==
    IF value = 64 THEN "ForceCroppedImage" ELSE "Off"

PgsPcsCompositionState_from(value) ==
    CASE value = 128 -> "EpochStart"
      [] value = 64 -> "AcquisitionPoint"
      [] OTHER -> "Normal"

\* The loop over the composition objects: 8 bytes each, and 8 more when
\* the cropped flag is ForceCroppedImage.
RECURSIVE PcsObjects(_, _, _, _)
PcsObjects(data, pos, left, objs) ==
    IF left = 0 THEN [ok |-> TRUE, pos |-> pos, objs |-> objs]
    ELSE
      LET head == ReadFields(data, pos, <<2, 1, 1, 2, 2>>)
          flag == PgsPcsObjectCroppedFlag_from(data[pos + 4])
          crop == IF flag = "ForceCroppedImage"
                  THEN ReadFields(data, head.pos, <<2, 2, 2, 2>>)
                  ELSE head
          obj  == [object_id |-> BE16(data, pos),
                   window_id |-> data[pos + 3],
                   object_cropped_flag |-> flag,
                   object_horizontal_position |-> BE16(data, pos + 4),
                   object_vertical_position |-> BE16(data, pos + 6),
                   object_cropping_horizontal_position |->
                       IF flag = "Off" THEN 0 ELSE BE16(data, pos + 8),
                   object_cropping_vertical_position |->
                       IF flag = "Off" THEN 0 ELSE BE16(data, pos + 10),
                   object_cropping_width |->
                       IF flag = "Off" THEN 0 ELSE BE16(data, pos + 12),
                   object_cropping_height_position |->
                       IF flag = "Off" THEN 0 ELSE BE16(data, pos + 14)]
      IN  IF ~head.ok THEN [ok |-> FALSE, pos |-> head.pos, objs |-> objs]
          ELSE IF ~crop.ok THEN [ok |-> FALSE, pos |-> crop.pos, objs |-> objs]
          ELSE PcsObjects(data, crop.pos, left - 1, Append(objs, obj))

\* from_data after the length test.  The frame-rate byte is read and
\* dropped; frame_rate keeps the 0x10 of new().
PcsFields(header, data) ==
    LET fixed == ReadFields(data, 0, <<2, 2, 1, 2, 1, 1, 1, 1>>)
        objs  == PcsObjects(data, fixed.pos, data[11], << >>)
    IN  IF ~fixed.ok THEN Failed(EofError, fixed.pos)
        ELSE IF ~objs.ok THEN Failed(EofError, objs.pos)
        ELSE Parsed([header |-> header,
                     width |-> BE16(data, 0),
                     height |-> BE16(data, 2),
                     frame_rate |-> 16,
                     composition_number |-> BE16(data, 5),
                     composition_state |-> PgsPcsCompositionState_from(data[8]),
                     palette_update_flag |-> data[9],
                     palette_id |-> data[10],
                     number_of_composition_objects |-> data[11],
                     composition_objects |-> objs.objs], objs.pos)

\* from_data without the length test.
PgsPcsSegment_from_data_NoLengthTest(header, data) == PcsFields(header, data)

PgsPcsSegment_from_data(header, data) ==
    IF TooShort(header, data) THEN Failed("InvalidSegmentDataLength", 0)
    ELSE PcsFields(header, data)

\* The loop over the windows: 9 bytes each.
RECURSIVE WdsWindows(_, _, _, _)
WdsWindows(data, pos, left, windows) ==
    IF left = 0 THEN [ok |-> TRUE, pos |-> pos, windows |-> windows]
    ELSE
      LET rd == ReadFields(data, pos, <<1, 2, 2, 2, 2>>)
          w  == [window_id |-> data[pos + 1],
                 window_horizontal_position |-> BE16(data, pos + 1),
                 window_vertical_position |-> BE16(data, pos + 3),
                 window_width |-> BE16(data, pos + 5),
                 window_height |-> BE16(data, pos + 7)]
      IN  IF ~rd.ok THEN [ok |-> FALSE, pos |-> rd.pos, windows |-> windows]
          ELSE WdsWindows(data, rd.pos, left - 1, Append(windows, w))

PgsWdsSegment_from_data(header, data) ==
    IF TooShort(header, data) THEN Failed("InvalidSegmentDataLength", 0)
    ELSE IF ~Avail(data, 0, 1) THEN Failed(EofError, 0)
    ELSE LET ws == WdsWindows(data, 1, data[1], << >>)
         IN  IF ~ws.ok THEN Failed(EofError, ws.pos)
             ELSE Parsed([header |-> header,
                          number_of_windows |-> data[1],
                          windows |-> ws.windows], ws.pos)

\* The loop over the palette entries: 5 bytes each, read from palette_buf.
RECURSIVE PdsEntries(_, _, _, _)
PdsEntries(palette_buf, pos, left, entries) ==
    IF left = 0 THEN [ok |-> TRUE, pos |-> pos, entries |-> entries]
    ELSE
      LET rd == ReadFields(palette_buf, pos, <<1, 1, 1, 1, 1>>)
          e  == PaletteEntry(palette_buf[pos + 1], palette_buf[pos + 2],
                             palette_buf[pos + 3], palette_buf[pos + 4],
                             palette_buf[pos + 5])
      IN  IF ~rd.ok THEN [ok |-> FALSE, pos |-> rd.pos, entries |-> entries]
          ELSE PdsEntries(palette_buf, rd.pos, left - 1, Append(entries, e))

\* palette_count = (palette_buf.len() as u32 - 2) / 5.  Under 2 bytes the
\* subtraction underflows: a panic with overflow checks; without them the
\* count wraps to more than 858 million, and the loop runs until a read
\* fails, which it does within palette_buf.len() + 1 reads.
\* The count without the - 2.
PdsCount_NoOffset(palette_buf) == Len(palette_buf) \div 5

PdsCount(palette_buf) == (Len(palette_buf) - 2) \div 5

\* The subtraction saturating at 0: no entries under 2 bytes.
PdsLoopCount_Saturating(palette_buf) ==
    IF Len(palette_buf) < 2 THEN 0 ELSE PdsCount(palette_buf)

\* The iterations `for _ in 0..palette_count` can make before a read
\* fails: with the count wrapped, one more than there are bytes.
PdsLoopCount(palette_buf) ==
    IF Len(palette_buf) < 2 THEN Len(palette_buf) + 1 ELSE PdsCount(palette_buf)

PgsPdsSegment_from_data(header, data, checks) ==
    LET ids == ReadFields(data, 0, <<1, 1>>)
        palette_buf == SubSeq(data, 3, Len(data))
        underflow == Len(palette_buf) < 2
        entries == PdsEntries(palette_buf, 0, PdsLoopCount(palette_buf), << >>)
    IN  IF TooShort(header, data) THEN Failed("InvalidSegmentDataLength", 0)
        ELSE IF ~ids.ok THEN Failed(EofError, ids.pos)
        ELSE IF underflow /\ checks
        THEN Panicked("attempt to subtract with overflow", Len(data))
        ELSE IF ~entries.ok THEN Failed(EofError, Len(data))
        ELSE Parsed([header |-> header,
                     palette_id |-> data[1],
                     palette_version_number |-> data[2],
                     palette_entries |-> entries.entries], Len(data))

PgsOdsSequenceFlag_from(value) ==
    CASE value = 64 -> "Last"
      [] value = 128 -> "First"
      [] value = 192 -> "Both"
      [] OTHER -> "Unknown"

\* Width and height are read for every flag but Unknown.
HasDimensions_AlsoLast(flag) == flag \in {"First", "Both", "Last"}

\* The test guarding the two read_u16 calls for width and height.
HasDimensions(flag) == flag \in {"First", "Both"}

\* object_data_length = read_u24 - 4.  Under 4 the subtraction underflows:
\* a panic with overflow checks; without them the length wraps to over
\* 4294967291 and read_into_vec fails, no slice being that long.
PgsOdsSegment_from_data(header, data, checks) ==
    LET head == ReadFields(data, 0, <<2, 1, 1, 3>>)
        flag == PgsOdsSequenceFlag_from(data[4])
        underflow == BE24(data, 4) < 4
        object_data_length == BE24(data, 4) - 4
        sized == HasDimensions(flag)
        dims == IF sized THEN ReadFields(data, head.pos, <<2, 2>>) ELSE head
    IN  IF TooShort(header, data) THEN Failed("InvalidSegmentDataLength", 0)
        ELSE IF ~head.ok THEN Failed(EofError, head.pos)
        ELSE IF underflow /\ checks
        THEN Panicked("attempt to subtract with overflow", head.pos)
        ELSE IF ~dims.ok THEN Failed(EofError, dims.pos)
        ELSE IF underflow \/ ~Avail(data, dims.pos, object_data_length)
        THEN Failed(EofError, dims.pos)
        ELSE Parsed([header |-> header,
                     object_id |-> BE16(data, 0),
                     object_version_number |-> data[3],
                     last_in_sequence_flag |-> flag,
                     object_data_length |-> object_data_length,
                     width |-> IF sized THEN BE16(data, 7) ELSE 0,
                     height |-> IF sized THEN BE16(data, 9) ELSE 0,
                     object_data |-> SubSeq(data, dims.pos + 1,
                                            dims.pos + object_data_length)],
                    dims.pos + object_data_length)

(***************************************************************************)
(* PgsFile (pgs_file.rs) and PgsParser::read_segment over the bytes of a   *)
(* file.  read_n_bytes and read_bytes fail when the read would pass the    *)
(* end of the file, is_eof holds from the end of the file on.              *)
(***************************************************************************)
\* End of file declared as soon as no whole header is left.
is_eof_NoRoomForHeader(bytes, pos) == pos + 13 > Len(bytes)

is_eof(bytes, pos) == pos >= Len(bytes)

\* What one call of read_segment did: the file position it started at (at),
\* its result (tag, val), the file position it left (pos), the header it parsed if it got that far, the
\* body parser it called ("none" if none), the slice it handed to it and
\* the position that parser's buffer reached.
SegmentRead(at, tag, val, pos, header, parser, body, consumed) ==
    [at |-> at, tag |-> tag, val |-> val, pos |-> pos, header |-> header,
     parser |-> parser, body |-> body, consumed |-> consumed]

BodyParser(segment_type, header, body, checks) ==
    CASE segment_type = "PCS" -> PgsPcsSegment_from_data(header, body)
      [] segment_type = "WDS" -> PgsWdsSegment_from_data(header, body)
      [] segment_type = "PDS" -> PgsPdsSegment_from_data(header, body, checks)
      [] segment_type = "ODS" -> PgsOdsSegment_from_data(header, body, checks)

SegmentKind(segment_type) ==
    CASE segment_type = "PCS" -> "Pcs"
      [] segment_type = "WDS" -> "Wds"
      [] segment_type = "PDS" -> "Pds"
      [] segment_type = "ODS" -> "Ods"
      [] OTHER -> "End"

NoHeader == [tag |-> "None", val |-> "none"]

EndSegment(rc) == Segment("End", rc, [segment |-> "END"])

\* The END arm reading past the body length the header declares.
ReadEnd_SkipsDeclaredBody(at, rc, header) ==
    SegmentRead(at, "Ok", EndSegment(rc), at + 13 + header.val.segment_length,
                header, "none", << >>, 0)

\* The END arm: Ok(PgsSegment::End) with no body read.
ReadEnd(at, rc, header) ==
    SegmentRead(at, "Ok", EndSegment(rc), at + 13, header, "none", << >>, 0)

read_segment(bytes, pos, rc, checks) ==
    LET buffer == SubSeq(bytes, pos + 1, pos + 13)
        header == PgsSegmentHeader_from_data(buffer)
        type   == header.val.segment_type
        length == header.val.segment_length
        body   == SubSeq(bytes, pos + 14, pos + 13 + length)
        parsed == BodyParser(type, header.val, body, checks)
    IN  IF ~Avail(bytes, pos, 13)
        THEN SegmentRead(pos, "Err", EofError, pos, NoHeader, "none", << >>, 0)
        ELSE IF header.tag = "Err"
        THEN SegmentRead(pos, "Err", header.val, pos + 13, header, "none", << >>, 0)
        ELSE IF type = "ERR"
        THEN SegmentRead(pos, "Err", "ReadInvalidSegment", pos + 13, header,
                         "none", << >>, 0)
        ELSE IF type = "END"
        THEN ReadEnd(pos, rc, header)
        ELSE IF ~Avail(bytes, pos + 13, length)
        THEN SegmentRead(pos, "Err", EofError, pos + 13, header, "none", << >>, 0)
        ELSE SegmentRead(pos, parsed.tag,
                         IF parsed.tag = "Ok"
                         THEN Segment(SegmentKind(type), rc, parsed.val)
                         ELSE parsed.val,
                         pos + 13 + length, header, type, body, parsed.pos)

(***************************************************************************)
(* Files.  A file is up to MaxChunks chunks end to end; a chunk is a       *)
(* segment as it lies in a SUP file, or a damaged one.                     *)
(***************************************************************************)
Take(s, n) == SubSeq(s, 1, Min(n, Len(s)))

\* A header with the marker "PG", PTS 1, DTS 2, the tag and the length.
Hdr(tag, length) ==
    <<80, 71, 0, 0, 0, 1, 0, 0, 0, 2, tag, length \div 256, length % 256>>

\* A PCS body with no composition object: 1920 x 1080, frame-rate byte
\* 0x20, composition number 1, EpochStart.
PcsBody0 == <<7, 128, 4, 56, 32, 0, 1, 128, 0, 0, 0>>

\* The same announcing one composition object.
PcsBody1 == <<7, 128, 4, 56, 32, 0, 1, 128, 0, 0, 1>>

WdsBody1 == <<1, 0, 0, 1, 0, 2, 0, 3, 0, 4>>

PdsBody7 == <<0, 0, 1, 50, 100, 100, 255, 9, 9>>

OdsBody == <<0, 1, 0, 192, 0, 0, 6, 0, 2, 0, 1, 2, 2>>

Chunks ==
    { Hdr(128, 0),                          \* END
      Hdr(128, 3),                          \* END declaring a body of 3
      Hdr(22, 11) \o PcsBody0,              \* PCS
      Hdr(22, 12) \o PcsBody0 \o <<255>>,   \* PCS and one byte more
      Hdr(23, 10) \o WdsBody1,              \* WDS, one window
      Hdr(20, 9) \o PdsBody7,               \* PDS, 7 bytes after id, version
      Hdr(21, 13) \o OdsBody,               \* ODS, 2 x 1, payload 02 02
      <<80, 72>> \o SubSeq(Hdr(22, 11), 3, 13),   \* a wrong marker
      Hdr(66, 2) \o <<1, 2>>,               \* an unknown tag
      Take(Hdr(22, 11) \o PcsBody0, 20),    \* a PCS cut inside its body
      Hdr(22, 11) \o PcsBody1,              \* a PCS missing its object
      Hdr(20, 3) \o <<0, 0, 7>>,            \* a PDS too short for the - 2
      <<80, 71, 0>> }                       \* a header cut short

RECURSIVE Concat(_)
Concat(chunks) ==
    IF chunks = << >> THEN << >> ELSE Head(chunks) \o Concat(Tail(chunks))

Files == { Concat(cs) : cs \in UNION { [1..n -> Chunks] : n \in 0..MaxChunks } }

(***************************************************************************)
(* PgsParser::parse, pgs_parser.rs:94-151.                                 *)
(***************************************************************************)
ParserInit ==
    /\ segments = << >>
    /\ display_sets = << >>
    /\ ds = PgsDisplaySet_new
    /\ idx = 0
    /\ pc = "open"
    /\ parse_error = ""
    /\ call = [op |-> "none"]

ParserIdle ==
    /\ segments = << >>
    /\ display_sets = << >>
    /\ ds = PgsDisplaySet_new
    /\ idx = 0
    /\ pc = "idle"
    /\ parse_error = ""
    /\ call = [op |-> "none"]

\* parse_inner: PgsReader::open(self.sup_file_path)?
OpenFile(found) ==
    /\ pc = "open"
    /\ IF found
       THEN pc' = "read" /\ UNCHANGED parse_error
       ELSE pc' = "failed" /\ parse_error' = "File(NotFound)"
    /\ UNCHANGED <<segments, display_sets, ds, idx, call>>

\* parse_inner, Ok arm: the segment is pushed; at the end of the file
\* parse_inner returns and create_display_sets starts with a new accumulator.
ReadSegmentOk(seg, eof) ==
    /\ pc = "read"
    /\ Len(segments) < MaxSegs
    /\ eof \/ Len(segments) + 1 < MaxSegs
    /\ segments' = Append(segments, seg)
    /\ IF eof
       THEN pc' = "fold" /\ ds' = PgsDisplaySet_new /\ idx' = 0
       ELSE UNCHANGED <<pc, ds, idx>>
    /\ UNCHANGED <<display_sets, parse_error, call>>

\* parse_inner, Err arm: the error is returned, and parse returns it.
ReadSegmentErr(error) ==
    /\ pc = "read"
    /\ pc' = "failed"
    /\ parse_error' = error
    /\ UNCHANGED <<segments, display_sets, ds, idx, call>>

\* The closure with the accumulator kept after an END.
FoldSegment_NoClean(acc, sets, segment) ==
    CASE segment.kind = "Pcs" ->
           [ds |-> [acc EXCEPT !.pcs = Some(segment)], display_sets |-> sets]
      [] segment.kind = "Wds" ->
           [ds |-> [acc EXCEPT !.wds = Some(segment)], display_sets |-> sets]
      [] segment.kind = "Ods" ->
           [ds |-> [acc EXCEPT !.ods = Some(segment)], display_sets |-> sets]
      [] segment.kind = "Pds" ->
           [ds |-> [acc EXCEPT !.pds = Some(segment)], display_sets |-> sets]
      [] segment.kind = "End" ->
           [ds |-> acc, display_sets |-> Append(sets, acc)]

\* The closure of create_display_sets applied to one segment.
FoldSegment(acc, sets, segment) ==
    CASE segment.kind = "Pcs" ->
           [ds |-> [acc EXCEPT !.pcs = Some(segment)], display_sets |-> sets]
      [] segment.kind = "Wds" ->
           [ds |-> [acc EXCEPT !.wds = Some(segment)], display_sets |-> sets]
      [] segment.kind = "Ods" ->
           [ds |-> [acc EXCEPT !.ods = Some(segment)], display_sets |-> sets]
      [] segment.kind = "Pds" ->
           [ds |-> [acc EXCEPT !.pds = Some(segment)], display_sets |-> sets]
      [] segment.kind = "End" ->
           [ds |-> clean(acc), display_sets |-> Append(sets, acc)]

CreateDisplaySetsStep ==
    /\ pc = "fold"
    /\ idx < Len(segments)
    /\ LET r == FoldSegment(ds, display_sets, segments[idx + 1])
       IN  ds' = r.ds /\ display_sets' = r.display_sets
    /\ idx' = idx + 1
    /\ UNCHANGED <<segments, pc, parse_error, call>>

\* create_display_sets flushing a non-empty accumulator when it returns.
CreateDisplaySetsReturn_Flush ==
    /\ pc = "fold"
    /\ idx = Len(segments)
    /\ pc' = "done"
    /\ display_sets' = IF ds = PgsDisplaySet_new THEN display_sets
                       ELSE Append(display_sets, ds)
    /\ UNCHANGED <<segments, ds, idx, parse_error, call>>

\* create_display_sets returns Ok(()) and parse returns Ok(parser).
CreateDisplaySetsReturn ==
    /\ pc = "fold"
    /\ idx = Len(segments)
    /\ pc' = "done"
    /\ UNCHANGED <<segments, display_sets, ds, idx, parse_error, call>>

\* The caller's use of get_display_sets()[k - 1].
CallState(k) ==
    /\ pc = "done"
    /\ call' = [op |-> "state", set |-> display_sets[k], gray |-> FALSE,
                result |-> state(display_sets[k])]
    /\ UNCHANGED <<segments, display_sets, ds, idx, pc, parse_error>>

CallGetRleImage(k) ==
    /\ pc = "done"
    /\ call' = [op |-> "get_rle_image", set |-> display_sets[k], gray |-> FALSE,
                result |-> get_rle_image(display_sets[k])]
    /\ UNCHANGED <<segments, display_sets, ds, idx, pc, parse_error>>

CallGetDecodedImage(k, gray) ==
    /\ pc = "done"
    /\ call' = [op |-> "get_decoded_image", set |-> display_sets[k],
                gray |-> gray,
                result |-> get_decoded_image(display_sets[k], gray)]
    /\ UNCHANGED <<segments, display_sets, ds, idx, pc, parse_error>>

(***************************************************************************)
(* PgsParser::parse over a file.  sup is the file being read: its bytes,   *)
(* the stream position, the build's overflow-checks setting, and the       *)
(* history of the read_segment calls.                                      *)
(***************************************************************************)
SupIdle == sup = [bytes |-> << >>, pos |-> 0, checks |-> FALSE, trace |-> << >>]

SupInit ==
    \E bytes \in Files, checks \in BOOLEAN :
        sup = [bytes |-> bytes, pos |-> 0, checks |-> checks, trace |-> << >>]

\* parse_inner, Err arm, with the segments read so far kept and folded.
ErrArm_KeepsPartial(error) ==
    [pc |-> "fold", parse_error |-> error]

\* parse_inner, Err arm: return Err(error), which parse returns with `?`.
ErrArm(error) ==
    [pc |-> "failed", parse_error |-> error]

\* One iteration of the loop of parse_inner.  A panic in a body parser
\* unwinds through parse: pc = "panicked".
ReadSegmentFile ==
    /\ pc = "read"
    /\ LET r == read_segment(sup.bytes, sup.pos, Len(segments) + 1, sup.checks)
       IN  /\ sup' = [sup EXCEPT !.pos = r.pos, !.trace = Append(@, r)]
           /\ CASE r.tag = "Ok" ->
                     /\ segments' = Append(segments, r.val)
                     /\ IF is_eof(sup.bytes, r.pos)
                        THEN pc' = "fold" /\ ds' = PgsDisplaySet_new /\ idx' = 0
                        ELSE UNCHANGED <<pc, ds, idx>>
                     /\ UNCHANGED parse_error
                [] r.tag = "Err" ->
                     /\ pc' = ErrArm(r.val).pc
                     /\ parse_error' = ErrArm(r.val).parse_error
                     /\ UNCHANGED <<segments, ds, idx>>
                [] r.tag = "Panic" ->
                     /\ pc' = "panicked"
                     /\ UNCHANGED <<segments, ds, idx, parse_error>>
    /\ UNCHANGED <<display_sets, call>>

(***************************************************************************)
(* The header parser and the body parsers applied to byte blocks.  pcall   *)
(* is one call: the function (target), its arguments, and, once called,    *)
(* what it returned.                                                       *)
(***************************************************************************)
Prefixes(S) == { Take(s, n) : s \in S, n \in 0..MaxBlock }

\* 13-byte headers and longer and shorter blocks: markers right and wrong
\* in either byte, known and unknown tags, the other bytes varied.
HeaderBlocks ==
    { marker \o pts \o dts \o <<tag>> \o length \o more :
        marker \in { <<80, 71>>, <<80, 72>>, <<81, 71>>, <<71, 80>>, <<0, 0>> },
        pts \in { <<0, 0, 0, 0>>, <<255, 255, 255, 255>>, <<1, 2, 3, 4>> },
        dts \in { <<0, 0, 0, 1>>, <<80, 71, 80, 71>> },
        tag \in { 20, 21, 22, 23, 128, 0, 19, 24, 129, 255 },
        length \in { <<0, 0>>, <<1, 2>>, <<255, 255>> },
        more \in { << >>, <<80>> } }
    \cup { Take(Hdr(22, 11), n) : n \in 0..12 }

PcsObjectOff == <<0, 1, 0, 0, 0, 10, 0, 20>>

PcsObjectCropped == <<0, 2, 1, 64, 0, 10, 0, 20, 0, 1, 0, 2, 0, 30, 0, 40>>

\* An object whose flag byte has bit 0x40 set without being 0x40.
PcsObjectFlagC0 == <<0, 3, 2, 192, 0, 11, 0, 21>>

\* PCS bodies: the 11 fixed bytes announcing n objects, m objects of
\* any of the forms, perhaps a byte more; and every prefix of such a body.
PcsBodies ==
    Prefixes({ <<7, 128, 4, 56, rate, 0, 1, cstate, 0, 3, n>> \o Concat(objs) \o more :
        rate \in {16, 32}, cstate \in {0, 64, 128}, n \in 0..MaxObjects,
        objs \in UNION { [1..m -> {PcsObjectOff, PcsObjectCropped, PcsObjectFlagC0}] :
                         m \in 0..MaxObjects },
        more \in { << >>, <<255>> } })

\* Filler bytes, all different, so that a field read from the wrong place
\* shows.
Filler == [i \in 1..MaxBlock |-> 100 + i]

WdsBodies ==
    { <<n>> \o Take(Filler, m) : n \in 0..MaxObjects, m \in 0..MaxBlock - 1 }
    \cup { << >> }

PdsBodies ==
    { Take(<<5, 6>> \o Take(Filler, MaxBlock - 2), m) : m \in 0..MaxBlock }

OdsBodies ==
    Prefixes({ <<0, 1, 2, flag, 0, 0, declared>> \o Take(Filler, m) :
        flag \in {0, 64, 128, 192}, declared \in 0..MaxDeclared,
        m \in 0..MaxDeclared + 2 })

BlocksOf(target) ==
    CASE target = "header" -> HeaderBlocks
      [] target = "pcs" -> PcsBodies
      [] target = "wds" -> WdsBodies
      [] target = "pds" -> PdsBodies
      [] target = "ods" -> OdsBodies

\* The lengths a header may declare for a block: none, the block's own
\* length, and one less and one more than that.
DeclaredLengths(data) ==
    { n \in {0, Len(data) - 1, Len(data), Len(data) + 1} : n >= 0 }

BlockHeader(target, length) ==
    PgsSegmentHeader_new(
        CASE target = "pcs" -> "PCS" [] target = "wds" -> "WDS"
          [] target = "pds" -> "PDS" [] target = "ods" -> "ODS"
          [] OTHER -> "ERR",
        U32(0, 0, 0, 1), U32(0, 0, 0, 2), length)

PcallIdle ==
    pcall = [target |-> "none", header |-> BlockHeader("none", 0),
             data |-> << >>, checks |-> FALSE, called |-> FALSE,
             result |-> NoHeader]

PcallInit ==
    \E target \in {"header", "pcs", "wds", "pds", "ods"}, checks \in BOOLEAN :
      \E data \in BlocksOf(target) :
        \E length \in IF target = "header" THEN {0} ELSE DeclaredLengths(data) :
          /\ target \in {"header", "pcs", "wds"} => ~checks
          /\ pcall = [target |-> target, header |-> BlockHeader(target, length),
                      data |-> data, checks |-> checks, called |-> FALSE,
                      result |-> NoHeader]

Returned(target, result) ==
    /\ pcall.target = target
    /\ ~pcall.called
    /\ pcall' = [pcall EXCEPT !.called = TRUE, !.result = result]

CallHeaderFromData ==
    Returned("header", PgsSegmentHeader_from_data(pcall.data))

CallPcsFromData ==
    Returned("pcs", PgsPcsSegment_from_data(pcall.header, pcall.data))

CallWdsFromData ==
    Returned("wds", PgsWdsSegment_from_data(pcall.header, pcall.data))

CallPdsFromData ==
    Returned("pds", PgsPdsSegment_from_data(pcall.header, pcall.data, pcall.checks))

CallOdsFromData ==
    Returned("ods", PgsOdsSegment_from_data(pcall.header, pcall.data, pcall.checks))

(***************************************************************************)
(* PgsMemoryBuffer (pgs_memory_buffer.rs) under seeks and reads.  membuf   *)
(* holds the buffer, the position and a record of the last call: its name, *)
(* the bytes it asked for (or the target of the seek) and what it returned.*)
(***************************************************************************)
\* The slice from min(position, len) to the end of the buffer.
remaining_slice(mb) ==
    SubSeq(mb.buffer, Min(mb.position, Len(mb.buffer)) + 1, Len(mb.buffer))

\* read_exact moving the position even when it fails.
read_exact_AdvancesOnError(mb, buf_len) ==
    LET rem == remaining_slice(mb)
    IN  IF buf_len > Len(rem)
        THEN [tag |-> "Err", bytes |-> << >>, position |-> mb.position + buf_len]
        ELSE [tag |-> "Ok", bytes |-> SubSeq(rem, 1, buf_len),
              position |-> mb.position + buf_len]

\* read_exact: the slice's read_exact fills the whole of the caller's
\* buffer or fails with UnexpectedEof, and on failure the `?` returns
\* before the position is moved.
read_exact(mb, buf_len) ==
    LET rem == remaining_slice(mb)
    IN  IF buf_len > Len(rem)
        THEN [tag |-> "Err", bytes |-> << >>, position |-> mb.position]
        ELSE [tag |-> "Ok", bytes |-> SubSeq(rem, 1, buf_len),
              position |-> mb.position + buf_len]

NoCall == [op |-> "none", n |-> 0, tag |-> "Ok", val |-> 0]

BufIdle == membuf = [buffer |-> << >>, position |-> 0, last |-> NoCall]

\* PgsMemoryBuffer::from: the bytes given, position 0.
BufInit ==
    \E m \in 0..MaxBuf :
      membuf = [buffer |-> Take(Filler, m), position |-> 0, last |-> NoCall]

\* seek: the position is set to the target, whatever it is.
Seek ==
    \E to \in 0..MaxBuf + 2 :
      membuf' = [membuf EXCEPT !.position = to,
                               !.last = [op |-> "seek", n |-> to,
                                         tag |-> "Ok", val |-> to]]

\* A read of n bytes through read_exact; decoded is the value returned
\* for the bytes read.
ReadCall(op, n, r, decoded) ==
    membuf' = [membuf EXCEPT !.position = r.position,
                             !.last = [op |-> op, n |-> n, tag |-> r.tag,
                                       val |-> IF r.tag = "Ok" THEN decoded
                                               ELSE EofError]]

ReadU8 ==
    LET r == read_exact(membuf, 1) IN ReadCall("read_u8", 1, r, r.bytes[1])

ReadU16 ==
    LET r == read_exact(membuf, 2) IN ReadCall("read_u16", 2, r, BE16(r.bytes, 0))

ReadU24 ==
    LET r == read_exact(membuf, 3) IN ReadCall("read_u24", 3, r, BE24(r.bytes, 0))

ReadU32 ==
    LET r == read_exact(membuf, 4) IN ReadCall("read_u32", 4, r, BE32(r.bytes, 0))

ReadBytes ==
    \E N \in 0..MaxBuf + 1 :
      LET r == read_exact(membuf, N) IN ReadCall("read_bytes", N, r, r.bytes)

ReadIntoVec ==
    \E length \in 0..MaxBuf + 1 :
      LET r == read_exact(membuf, length)
      IN  ReadCall("read_into_vec", length, r, r.bytes)

(***************************************************************************)
(* decode_rle as a state machine.                                          *)
(***************************************************************************)
RleIdle ==
    /\ rle_in = [pds |-> NoPal, gray |-> FALSE,
                 ods |-> [width |-> 0, height |-> 0, object_data |-> << >>]]
    /\ rle = [pos |-> 0, row |-> 0, col |-> 0, pixels |-> << >>,
              count |-> 0, color |-> 0, iterations |-> 0, status |-> "idle"]
    /\ written = {}

RleInit ==
    /\ \E pds \in {NoPal, Pal3}, gray \in BOOLEAN,
          w \in 0..MaxW, h \in 0..MaxH, data \in RlePayloads :
          rle_in = [pds |-> pds, gray |-> gray,
                    ods |-> [width |-> w, height |-> h, object_data |-> data]]
    /\ rle = RleStart(rle_in.ods)
    /\ written = {}

\* The cells an iteration wrote, with the colour it wrote.
CellsWritten(st, nx, in) ==
    IF nx.row # st.row THEN {}
    ELSE { <<st.row, c, nx.pixels[st.row + 1][c + 1]>> : c \in st.col..(nx.col - 1) }

LoopIteration ==
    /\ rle.status = "loop"
    /\ rle.pos < Len(rle_in.ods.object_data)
    /\ rle' = RleIteration(rle, rle_in)
    /\ written' = written \cup CellsWritten(rle, rle', rle_in)
    /\ UNCHANGED rle_in

LoopExit ==
    /\ rle.status = "loop"
    /\ rle.pos >= Len(rle_in.ods.object_data)
    /\ rle' = RleExit(rle)
    /\ UNCHANGED <<rle_in, written>>

(***************************************************************************)
(* Palette lookups applied to bounded inputs.                              *)
(***************************************************************************)
LookupEntries ==
    { PaletteEntry(0, 50, 100, 100, 255),
      PaletteEntry(1, 150, 200, 200, 128),
      PaletteEntry(2, 255, 0, 0, 0) }

LookupPalettes ==
    { [palette_entries |-> es] :
        es \in UNION { [1..n -> LookupEntries] : n \in 0..MaxPal } }

ColorIdle == lookup = [fn |-> "none"]

Lookup(fn, color, pds, gray, result) ==
    lookup' = [fn |-> fn, color |-> color, pds |-> pds, gray |-> gray,
               result |-> result]

LookupGray(color, pds) ==
    Lookup("get_gray_color", color, pds, TRUE, get_gray_color(color, pds))

LookupArgb(color, pds) ==
    Lookup("get_argb_color", color, pds, FALSE, get_argb_color(color, pds))

LookupPixel(color, pds, gray) ==
    Lookup("get_pixel_color", color, pds, gray, get_pixel_color(color, pds, gray))

(***************************************************************************)
(* The colour conversion functions applied to their whole u8 domain.       *)
(* calc holds the arguments of one call (y, cb, cr, transparency), the     *)
(* function called (fn, "none" before the call) and what it returned.      *)
(***************************************************************************)
U8 == 0..255

\* (cb, cr) pairs: neutral chroma, and one pair off neutral on each side.
ChromaPairs == { <<128, 128>>, <<90, 240>> }

CalcArgs(y, chroma, transparency) ==
    [y |-> y, cb |-> chroma[1], cr |-> chroma[2],
     transparency |-> transparency, fn |-> "none", result |-> 0]

CalcIdle == calc = CalcArgs(0, <<128, 128>>, 0)

CalcInit ==
    \E y \in U8, chroma \in ChromaPairs, transparency \in U8 :
        calc = CalcArgs(y, chroma, transparency)

Called(fn, result) ==
    /\ calc.fn = "none"
    /\ calc' = [calc EXCEPT !.fn = fn, !.result = result]

CallCalcRed == Called("calc_red", calc_red(calc.y, calc.cr))

CallCalcGreen == Called("calc_green", calc_green(calc.y, calc.cb, calc.cr))

CallCalcBlue == Called("calc_blue", calc_blue(calc.y, calc.cb))

CallGetArgb ==
    Called("get_argb", get_argb(calc.y, calc.cb, calc.cr, calc.transparency))

CallCalcGray == Called("calc_gray", calc_gray(calc.transparency, calc.y))

(***************************************************************************)
(* Specifications.                                                         *)
(***************************************************************************)
Init == ParserInit /\ RleIdle /\ ColorIdle /\ CalcIdle /\ SupIdle /\ PcallIdle /\ BufIdle

Next ==
    \/ \E found \in BOOLEAN : OpenFile(found) /\ UNCHANGED <<rleVars, colorVars, calcVars, byteVars, bufVars>>
    \/ \E seg \in SegmentChoices(Len(segments) + 1), eof \in BOOLEAN :
          ReadSegmentOk(seg, eof) /\ UNCHANGED <<rleVars, colorVars, calcVars, byteVars, bufVars>>
    \/ \E error \in ReadErrors :
          ReadSegmentErr(error) /\ UNCHANGED <<rleVars, colorVars, calcVars, byteVars, bufVars>>
    \/ CreateDisplaySetsStep /\ UNCHANGED <<rleVars, colorVars, calcVars, byteVars, bufVars>>
    \/ CreateDisplaySetsReturn /\ UNCHANGED <<rleVars, colorVars, calcVars, byteVars, bufVars>>
    \/ \E k \in 1..Len(display_sets) :
          CallState(k) /\ UNCHANGED <<rleVars, colorVars, calcVars, byteVars, bufVars>>
    \/ \E k \in 1..Len(display_sets) :
          CallGetRleImage(k) /\ UNCHANGED <<rleVars, colorVars, calcVars, byteVars, bufVars>>
    \/ \E k \in 1..Len(display_sets), gray \in BOOLEAN :
          CallGetDecodedImage(k, gray) /\ UNCHANGED <<rleVars, colorVars, calcVars, byteVars, bufVars>>

Spec == Init /\ [][Next]_vars

InitRle == ParserIdle /\ RleInit /\ ColorIdle /\ CalcIdle /\ SupIdle /\ PcallIdle /\ BufIdle

NextRle ==
    \/ LoopIteration /\ UNCHANGED <<parserVars, colorVars, calcVars, byteVars, bufVars>>
    \/ LoopExit /\ UNCHANGED <<parserVars, colorVars, calcVars, byteVars, bufVars>>

SpecRle == InitRle /\ [][NextRle]_vars

InitColor == ParserIdle /\ RleIdle /\ ColorIdle /\ CalcIdle /\ SupIdle /\ PcallIdle /\ BufIdle

NextColor ==
    \/ \E color \in 0..MaxIdx, pds \in LookupPalettes :
          LookupGray(color, pds) /\ UNCHANGED <<parserVars, rleVars, calcVars, byteVars, bufVars>>
    \/ \E color \in 0..MaxIdx, pds \in LookupPalettes :
          LookupArgb(color, pds) /\ UNCHANGED <<parserVars, rleVars, calcVars, byteVars, bufVars>>
    \/ \E color \in 0..MaxIdx, pds \in LookupPalettes, gray \in BOOLEAN :
          LookupPixel(color, pds, gray) /\ UNCHANGED <<parserVars, rleVars, calcVars, byteVars, bufVars>>

SpecColor == InitColor /\ [][NextColor]_vars

InitCalc == ParserIdle /\ RleIdle /\ ColorIdle /\ CalcInit /\ SupIdle /\ PcallIdle /\ BufIdle

NextCalc ==
    \/ CallCalcRed /\ UNCHANGED <<parserVars, rleVars, colorVars, byteVars, bufVars>>
    \/ CallCalcGreen /\ UNCHANGED <<parserVars, rleVars, colorVars, byteVars, bufVars>>
    \/ CallCalcBlue /\ UNCHANGED <<parserVars, rleVars, colorVars, byteVars, bufVars>>
    \/ CallGetArgb /\ UNCHANGED <<parserVars, rleVars, colorVars, byteVars, bufVars>>
    \/ CallCalcGray /\ UNCHANGED <<parserVars, rleVars, colorVars, byteVars, bufVars>>

SpecCalc == InitCalc /\ [][NextCalc]_vars

\* A behaviour is one parse of a file, or one call of a header or body
\* parser on a byte block.
InitBytes ==
    /\ RleIdle /\ ColorIdle /\ CalcIdle /\ BufIdle
    /\ \/ ParserInit /\ SupInit /\ PcallIdle
       \/ ParserIdle /\ SupIdle /\ PcallInit

NextBytes ==
    \/ \E found \in BOOLEAN :
          OpenFile(found) /\ UNCHANGED <<rleVars, colorVars, calcVars, byteVars, bufVars>>
    \/ ReadSegmentFile /\ UNCHANGED <<rleVars, colorVars, calcVars, pcall, bufVars>>
    \/ CreateDisplaySetsStep
          /\ UNCHANGED <<rleVars, colorVars, calcVars, byteVars, bufVars>>
    \/ CreateDisplaySetsReturn
          /\ UNCHANGED <<rleVars, colorVars, calcVars, byteVars, bufVars>>
    \/ CallHeaderFromData
          /\ UNCHANGED <<parserVars, rleVars, colorVars, calcVars, sup, bufVars>>
    \/ CallPcsFromData
          /\ UNCHANGED <<parserVars, rleVars, colorVars, calcVars, sup, bufVars>>
    \/ CallWdsFromData
          /\ UNCHANGED <<parserVars, rleVars, colorVars, calcVars, sup, bufVars>>
    \/ CallPdsFromData
          /\ UNCHANGED <<parserVars, rleVars, colorVars, calcVars, sup, bufVars>>
    \/ CallOdsFromData
          /\ UNCHANGED <<parserVars, rleVars, colorVars, calcVars, sup, bufVars>>

SpecBytes == InitBytes /\ [][NextBytes]_vars

\* A PgsMemoryBuffer over up to MaxBuf bytes, and any sequence of calls.
InitBuffer ==
    ParserIdle /\ RleIdle /\ ColorIdle /\ CalcIdle /\ SupIdle /\ PcallIdle /\ BufInit

NextBuffer ==
    \/ Seek /\ UNCHANGED <<parserVars, rleVars, colorVars, calcVars, byteVars>>
    \/ ReadU8 /\ UNCHANGED <<parserVars, rleVars, colorVars, calcVars, byteVars>>
    \/ ReadU16 /\ UNCHANGED <<parserVars, rleVars, colorVars, calcVars, byteVars>>
    \/ ReadU24 /\ UNCHANGED <<parserVars, rleVars, colorVars, calcVars, byteVars>>
    \/ ReadU32 /\ UNCHANGED <<parserVars, rleVars, colorVars, calcVars, byteVars>>
    \/ ReadBytes /\ UNCHANGED <<parserVars, rleVars, colorVars, calcVars, byteVars>>
    \/ ReadIntoVec /\ UNCHANGED <<parserVars, rleVars, colorVars, calcVars, byteVars>>

SpecBuffer == InitBuffer /\ [][NextBuffer]_vars

(***************************************************************************)
(* Claims about the display-set assembler and the display-set accessors,   *)
(* under Spec.                                                             *)
(***************************************************************************)
IsEnd(s, i) == s[i].kind = "End"

\* The number of END segments among the first n segments of s.
NumEnds(s, n) == Cardinality({ i \in 1..n : IsEnd(s, i) })

\* The position of the k-th END of s; 0 for k = 0 (the start of the stream).
EndPos(s, k) ==
    IF k = 0 THEN 0
    ELSE CHOOSE i \in 1..Len(s) : IsEnd(s, i) /\ NumEnds(s, i) = k

SlotOf(d, kind) ==
    CASE kind = "Pcs" -> d.pcs
      [] kind = "Wds" -> d.wds
      [] kind = "Pds" -> d.pds
      [] kind = "Ods" -> d.ods

SlotKinds == {"Pcs", "Wds", "Pds", "Ods"}

MaxOf(S) == CHOOSE x \in S : \A y \in S : y <= x

\* C1: after the fold has consumed idx segments there is exactly one
\* display set per END among them, so a successful parse ends with as many
\* display sets as the stream has ENDs (none without an END, none for the
\* segments after the last END); the k-th display set holds only segments
\* read between the (k-1)-th and the k-th END, so the sets are in END order.
C1_OneDisplaySetPerEnd ==
    /\ pc \in {"fold", "done"} =>
          Len(display_sets) = NumEnds(segments, idx)
    /\ pc = "done" =>
          /\ idx = Len(segments)
          /\ \A k \in 1..Len(display_sets) : \A kind \in SlotKinds :
                SlotOf(display_sets[k], kind).some =>
                   /\ SlotOf(display_sets[k], kind).val.rc > EndPos(segments, k - 1)
                   /\ SlotOf(display_sets[k], kind).val.rc < EndPos(segments, k)

\* Two ENDs, then a segment that no END follows: two display sets.
C1_Witness ==
    /\ pc = "done"
    /\ Len(segments) = 5
    /\ NumEnds(segments, 5) = 2
    /\ ~IsEnd(segments, 5)
    /\ Len(display_sets) = 2

\* C2: in a successful parse, each slot of the k-th display set holds the
\* last segment of its kind between the (k-1)-th END (or the start) and the
\* k-th END, and is empty when that interval has no segment of the kind.
C2_LatestWinsNoCarryOver ==
    pc = "done" =>
       \A k \in 1..Len(display_sets) : \A kind \in SlotKinds :
          LET lo == EndPos(segments, k - 1)
              hi == EndPos(segments, k)
              cands == { i \in (lo + 1)..(hi - 1) : segments[i].kind = kind }
          IN  SlotOf(display_sets[k], kind) =
                 IF cands = {} THEN None ELSE Some(segments[MaxOf(cands)])

\* Two PCS before the first END and none before the second: the first set
\* holds the second PCS, the second set holds none.
C2_Witness ==
    /\ pc = "done"
    /\ Len(display_sets) = 2
    /\ segments[1].kind = "Pcs"
    /\ segments[2].kind = "Pcs"
    /\ display_sets[1].pcs = Some(segments[2])
    /\ display_sets[2].pcs = None
    /\ display_sets[2].wds.some

C4_ImageAccessors ==
    call.op \in {"get_rle_image", "get_decoded_image"} =>
       LET d == call.set
           complete == d.pcs.some /\ d.wds.some /\ d.pds.some /\ d.ods.some
           r == call.result
       IN  /\ (r.tag = "Err" /\ r.val = "IncompleteDisplaySet") <=> ~complete
           /\ ~(r.tag = "Panic" /\ r.val = UnwrapPanic.val)
           /\ (complete /\ call.op = "get_rle_image") =>
                 (r.tag = "Ok" /\ r.val = d.ods.val.body.object_data)

\* get_rle_image on a complete set whose ODS is the test object.
C4_Witness ==
    /\ call.op = "get_rle_image"
    /\ call.set.ods.some
    /\ call.result.tag = "Ok"
    /\ call.result.val = <<0, 0, 1, 2, 1, 3, 2>>

(***************************************************************************)
(* Claims about decode_rle, under SpecRle.  The operation at the read      *)
(* position is decoded here from the payload bytes, as the format table    *)
(* words it.                                                               *)
(***************************************************************************)
Data == rle_in.ods.object_data
Width == rle_in.ods.width
Height == rle_in.ods.height

\* The i-th byte from the read position (1 is the next byte).
At(i) == Data[rle.pos + i]
HasBytes(n) == rle.pos + n <= Len(Data)

Running == rle.status = "loop" /\ rle.pos < Len(Data)
IsLiteral == Running /\ At(1) # 0
IsEol == Running /\ HasBytes(2) /\ At(1) = 0 /\ At(2) = 0
IsEscape == Running /\ HasBytes(2) /\ At(1) = 0 /\ At(2) # 0

TopBits == At(2) \div 64
EscSize == CASE TopBits = 0 -> 2 [] TopBits = 1 -> 3
             [] TopBits = 2 -> 3 [] TopBits = 3 -> 4
EscComplete == IsEscape /\ HasBytes(EscSize)
EscCount ==
    CASE TopBits = 0 -> At(2)
      [] TopBits = 1 -> (At(2) % 64) * 256 + At(3)
      [] TopBits = 2 -> At(2) % 64
      [] TopBits = 3 -> (At(2) % 64) * 256 + At(3)
EscColor ==
    CASE TopBits = 0 -> 0
      [] TopBits = 1 -> 0
      [] TopBits = 2 -> At(3)
      [] TopBits = 3 -> At(4)

\* A run of count cells from the cursor stays inside the matrix.
Fits(count) ==
    count = 0 \/ (rle.row < Height /\ rle.col + count <= Width)

\* The step wrote color into count consecutive cells of the current row
\* from col on, and changed no other cell.
RunWritten(count, color) ==
    /\ Len(rle'.pixels) = Len(rle.pixels)
    /\ \A r \in 1..Len(rle.pixels) :
          /\ Len(rle'.pixels[r]) = Len(rle.pixels[r])
          /\ \A c \in 1..Len(rle.pixels[r]) :
                rle'.pixels[r][c] =
                   IF r = rle.row + 1 /\ c - 1 >= rle.col /\ c - 1 < rle.col + count
                   THEN get_pixel_color(color, rle_in.pds, rle_in.gray)
                   ELSE rle.pixels[r][c]

AllZero(row) == \A c \in 1..Len(row) : row[c] = <<0, 0, 0, 0>>

\* C5: when decode_rle returns Ok, the matrix has ods.height rows of
\* ods.width entries each, in gray and in ARGB mode, for every payload.
C5_MatrixShape ==
    rle.status = "Ok" =>
       /\ Len(rle.pixels) = Height
       /\ \A r \in 1..Len(rle.pixels) : Len(rle.pixels[r]) = Width

\* A successful decode of a 1-row, 2-column object that wrote pixels.
C5_Witness ==
    /\ rle.status = "Ok"
    /\ Width = 2 /\ Height = 1
    /\ written # {}

\* C6, the literal: a byte B # 0 at the top level, with the cursor inside
\* the matrix, writes the colour of palette index B at (row, col) and
\* advances col by 1.
C6_LiteralStep ==
    (IsLiteral /\ Fits(1)) =>
       /\ RunWritten(1, At(1))
       /\ rle'.col = rle.col + 1
       /\ rle'.row = rle.row
       /\ rle'.pos = rle.pos + 1
       /\ rle'.status = "loop"

\* C6, the end of line: 0x00 0x00 writes nothing, adds 1 to row and sets
\* col to 0.
C6_EolStep ==
    IsEol =>
       /\ rle'.pixels = rle.pixels
       /\ rle'.row = rle.row + 1
       /\ rle'.col = 0
       /\ rle'.pos = rle.pos + 2
       /\ rle'.status \in {"loop", "Ok"}

\* C6, the consequences: a payload of 0x00 0x00 pairs only decodes to an
\* all-zero matrix, and after a leading 0x00 0x00 row 0 stays all zero.
C6_EolOnly ==
    /\ (rle.status = "Ok" /\ Len(Data) % 2 = 0 /\ \A i \in 1..Len(Data) : Data[i] = 0)
          => \A r \in 1..Len(rle.pixels) : AllZero(rle.pixels[r])
    /\ (rle.status # "idle" /\ Len(Data) >= 2 /\ Data[1] = 0 /\ Data[2] = 0
          /\ Len(rle.pixels) >= 1)
          => AllZero(rle.pixels[1])

\* C6: a literal writes one pixel of its palette index and advances col; the
\* pair 0x00 0x00 writes nothing, increments row and resets col.
C6_LiteralAndEndOfLine ==
    [][C6_LiteralStep /\ C6_EolStep]_vars /\ []C6_EolOnly

\* 0x00 0x00 0x02 decoded: row 0 is zero and the literal is at (1, 0).
C6_Witness ==
    /\ rle.status = "loop"
    /\ Data = <<0, 0, 2>>
    /\ rle.pos = 3
    /\ rle.row = 1 /\ rle.col = 1
    /\ written = { <<1, 0, get_pixel_color(2, rle_in.pds, rle_in.gray)>> }
    /\ rle_in.pds = Pal3

\* C7: an escape 0x00 D, D # 0, whose bytes are all in the payload runs
\* count pixels of palette index color, where by the top two bits of D
\* (00, 01, 10, 11) count is D, ((D & 0x3F) << 8) | L, D & 0x3F,
\* ((D & 0x3F) << 8) | L and color is 0, 0, C, C, with L then C the bytes
\* after D. A run that stays inside the matrix writes the cells
\* col .. col + count - 1 of the current row, advances col by count and
\* leaves row unchanged.
C7_EscapeStep ==
    EscComplete =>
       /\ rle'.count = EscCount
       /\ rle'.color = EscColor
       /\ rle'.pos = rle.pos + EscSize
       /\ Fits(EscCount) =>
             /\ RunWritten(EscCount, EscColor)
             /\ rle'.col = rle.col + EscCount
             /\ rle'.row = rle.row
             /\ rle'.status = "loop"

C7_RunEncodings == [][C7_EscapeStep]_vars

\* 0x00 0xC0 0x02 0x02 decoded in a row of two cells: two pixels of index 2.
C7_Witness ==
    /\ Data = <<0, 192, 2, 2>>
    /\ rle.pos = 4
    /\ rle.status = "loop"
    /\ rle.count = 2 /\ rle.color = 2
    /\ rle.row = 0 /\ rle.col = 2
    /\ Cardinality(written) = 2

\* C8, acceptance: with the payload consumed the loop ends and the matrix is
\* returned as it is, wherever the cursor stands.
C8_ExitStep ==
    (rle.status = "loop" /\ rle.pos >= Len(Data)) =>
       /\ rle'.status = "Ok"
       /\ rle'.pixels = rle.pixels

\* C8, the matrix returned: a cell a literal or a run wrote has the colour
\* written, every other cell is 0.
C8_Remainder ==
    rle.status = "Ok" =>
       \A r \in 1..Len(rle.pixels) : \A c \in 1..Len(rle.pixels[r]) :
          LET w == { t \in written : t[1] = r - 1 /\ t[2] = c - 1 }
          IN  IF w = {} THEN rle.pixels[r][c] = <<0, 0, 0, 0>>
              ELSE \A t \in w : rle.pixels[r][c] = t[3]

\* C8: a payload that ends in the middle of a row is accepted, the cells
\* written keep their colours and the rest of the matrix is zero.
C8_MidRowEndAccepted == [][C8_ExitStep]_vars /\ []C8_Remainder

\* The one-literal payload in a 2 x 2 matrix: returned with the cursor at
\* (0, 1), one cell written and three cells zero.
C8_Witness ==
    /\ rle.status = "Ok"
    /\ Data = <<2>>
    /\ Width = 2 /\ Height = 2
    /\ rle.row = 0 /\ rle.col = 1
    /\ Cardinality(written) = 1
    /\ rle.pixels[1][2] = <<0, 0, 0, 0>>
    /\ rle.pixels[1][1] # <<0, 0, 0, 0>>

\* A literal or a complete run is about to write a cell with col >= width.
WritesPastRowEnd ==
    \/ IsLiteral /\ rle.col + 1 > Width
    \/ EscComplete /\ EscCount > 0 /\ rle.col + EscCount > Width

\* C9: rows are never wrapped: a literal or run that would write a cell
\* with col >= ods.width ends decode_rle with an out-of-bounds panic; the
\* cursor stays in its row, no other row is written, and no image is
\* returned then or later.
C9_OverflowStep ==
    /\ WritesPastRowEnd =>
          /\ rle'.status = "Panic"
          /\ RleResult(rle').tag = "Panic"
          /\ rle'.row = rle.row
          /\ rle'.col <= Width
          /\ \A r \in 1..Len(rle.pixels) :
                r # rle.row + 1 => rle'.pixels[r] = rle.pixels[r]
    /\ rle.status = "Panic" => rle'.status = "Panic"

C9_NoImplicitWrap == [][C9_OverflowStep]_vars

\* A run of two from column 1 of a two-column row: one cell written, then
\* the panic.
C9_Witness ==
    /\ rle.status = "Panic"
    /\ Width = 2 /\ Height = 2
    /\ rle.row = 0 /\ rle.col = 2
    /\ rle.count = 2
    /\ Data = <<2, 0, 130, 2>>

(***************************************************************************)
(* Claims about the palette lookup, under SpecColor.                       *)
(***************************************************************************)
\* C10: a lookup with a colour index at or past the number of palette
\* entries returns 0x00FFFFFF from get_gray_color, get_argb_color and
\* get_pixel_color (gray or not), the empty palette included.
C10_DefaultWhite ==
    (lookup.fn # "none" /\ lookup.color >= Len(lookup.pds.palette_entries)) =>
       lookup.result = <<0, 255, 255, 255>>

\* get_pixel_color in ARGB mode with index 2 of a two-entry palette.
C10_Witness ==
    /\ lookup.fn = "get_pixel_color"
    /\ ~lookup.gray
    /\ Len(lookup.pds.palette_entries) = 2
    /\ lookup.color = 2
    /\ lookup.result = <<0, 255, 255, 255>>

(***************************************************************************)
(* Claims about the colour conversion, under SpecCalc.                     *)
(***************************************************************************)
\* The value of a u32 whose top byte is zero.
Low24(px) == px[2] * 65536 + px[3] * 256 + px[4]

GrayCalled == calc.fn = "calc_gray"

\* C11: for every transparency t and luminance y, calc_gray(t, y) is
\* g | g<<8 | g<<16 with g = 255 - (t*y)/255 in integer division; its top
\* byte is zero, and calc_gray(0, y) is 0xFFFFFF.
C11_GrayFormula ==
    GrayCalled =>
        LET g == 255 - (calc.transparency * calc.y) \div 255
        IN  /\ calc.result[1] = 0
            /\ Low24(calc.result) = BitOr(BitOr(g, Shl(g, 8)), Shl(g, 16))
            /\ (calc.transparency = 0 => Low24(calc.result) = 16777215)

C11_Witness ==
    GrayCalled /\ calc.transparency = 128 /\ calc.y = 128
               /\ Low24(calc.result) = 12566463

\* C12 as stated: calc_gray(255, Y) is 0x000000 for every luminance Y.
C12_Original ==
    (GrayCalled /\ calc.transparency = 255) =>
        (calc.result[1] = 0 /\ Low24(calc.result) = 0)

\* C12, amended: calc_gray(255, Y) is the grey of level 255 - Y, that is
\* (255-Y) * 0x010101; it is 0x000000 exactly when Y = 255.
C12_OpaqueGray ==
    (GrayCalled /\ calc.transparency = 255) =>
        /\ calc.result[1] = 0
        /\ Low24(calc.result) = (255 - calc.y) * 65793
        /\ (Low24(calc.result) = 0 <=> calc.y = 255)

C12_Witness ==
    GrayCalled /\ calc.transparency = 255 /\ calc.y = 100
               /\ Low24(calc.result) = 155 * 65793

\* C13: with neutral chroma (Cb = Cr = 128) calc_red, calc_green and
\* calc_blue return the luminance Y, and get_argb(Y, 128, 128, a) has the
\* bytes a, Y, Y, Y from the top: (a<<24) | (Y<<16) | (Y<<8) | Y.
C13_NeutralChroma ==
    (calc.cb = 128 /\ calc.cr = 128) =>
        /\ calc.fn \in {"calc_red", "calc_green", "calc_blue"} =>
              calc.result = calc.y
        /\ calc.fn = "get_argb" =>
              /\ calc.result[1] = calc.transparency
              /\ Low24(calc.result) = Shl(calc.y, 16) + Shl(calc.y, 8) + calc.y

C13_Witness ==
    /\ calc.fn = "get_argb" /\ calc.cb = 128 /\ calc.cr = 128
    /\ calc.y = 128 /\ calc.transparency = 255
    /\ calc.result = <<255, 128, 128, 128>>

(***************************************************************************)
(* Claims about the header parser, the body parsers and the stream parser, *)
(* under SpecBytes.  The fields of a header are decoded here from the      *)
(* bytes of the block or file, as the format lays them out.                *)
(***************************************************************************)
KnownTags == {20, 21, 22, 23, 128}

HeaderCalled == pcall.target = "header" /\ pcall.called

BodyCalled == pcall.target \in {"pcs", "wds", "pds", "ods"} /\ pcall.called

MagicAt(bytes, at) == bytes[at + 1] = 80 /\ bytes[at + 2] = 71

TagAt(bytes, at) == bytes[at + 11]

LengthAt(bytes, at) == bytes[at + 12] * 256 + bytes[at + 13]

\* The read_segment calls of the parse so far, and those that found 13
\* bytes to read a header from.
Reads == 1..Len(sup.trace)

HeaderReads == { i \in Reads : sup.trace[i].at + 13 <= Len(sup.bytes) }

ParsedStream == pc \in {"fold", "done"}

\* C14: on a block of at least 13 bytes PgsSegmentHeader::from_data fails
\* with ReadInvalidSegment when the first two bytes are not 0x50 0x47,
\* whatever the other bytes are, and succeeds when they are; every segment
\* the stream parser parsed began with 0x50 0x47.
C14_HeaderMagic ==
    /\ (HeaderCalled /\ Len(pcall.data) >= 13) =>
          IF MagicAt(pcall.data, 0)
          THEN pcall.result.tag = "Ok"
          ELSE /\ pcall.result.tag = "Err"
               /\ pcall.result.val = "ReadInvalidSegment"
    /\ \A i \in Reads :
          sup.trace[i].tag = "Ok" =>
              /\ i \in HeaderReads
              /\ MagicAt(sup.bytes, sup.trace[i].at)

C14_Witness ==
    /\ HeaderCalled /\ Len(pcall.data) = 14
    /\ pcall.data[1] = 80 /\ pcall.data[2] = 72 /\ pcall.data[11] = 22
    /\ pcall.result.tag = "Err"
    /\ pcall.result.val = "ReadInvalidSegment"

\* C15: a type tag other than 0x14, 0x15, 0x16, 0x17, 0x80 decodes to ERR;
\* from_data still returns a header, of type ERR; read_segment then fails
\* with ReadInvalidSegment having read the 13 header bytes and no more,
\* and the parse fails with that error.
C15_UnknownTag ==
    /\ (HeaderCalled /\ Len(pcall.data) >= 13 /\ MagicAt(pcall.data, 0)
          /\ TagAt(pcall.data, 0) \notin KnownTags) =>
          /\ pcall.result.tag = "Ok"
          /\ pcall.result.val.segment_type = "ERR"
          /\ pcall.result.val.segment_length = LengthAt(pcall.data, 0)
    /\ \A i \in HeaderReads :
          LET e == sup.trace[i]
          IN  (MagicAt(sup.bytes, e.at) /\ TagAt(sup.bytes, e.at) \notin KnownTags) =>
                /\ e.header.tag = "Ok" /\ e.header.val.segment_type = "ERR"
                /\ e.tag = "Err" /\ e.val = "ReadInvalidSegment"
                /\ e.parser = "none" /\ e.pos = e.at + 13
                /\ i = Len(sup.trace) /\ sup.pos = e.at + 13
                /\ pc = "failed" /\ parse_error = "ReadInvalidSegment"

C15_Witness ==
    /\ pc = "failed" /\ parse_error = "ReadInvalidSegment"
    /\ Len(sup.trace) = 2 /\ Len(segments) = 1
    /\ TagAt(sup.bytes, sup.trace[2].at) = 66
    /\ LengthAt(sup.bytes, sup.trace[2].at) = 2
    /\ sup.pos + 2 <= Len(sup.bytes)

TypeOfTag(tag) ==
    CASE tag = 20 -> "PDS" [] tag = 21 -> "ODS" [] tag = 22 -> "PCS"
      [] tag = 23 -> "WDS"

KindOfTag(tag) ==
    CASE tag = 20 -> "Pds" [] tag = 21 -> "Ods" [] tag = 22 -> "Pcs"
      [] tag = 23 -> "Wds"

\* C16: the stream parser reads headers one after another, each where the
\* segment before it ended, and pushes one segment per header in that
\* order; for PCS, WDS, PDS and ODS it takes the header's body length of
\* bytes after the 13 header bytes and hands them to the parser of that
\* type; for END it takes no body, whatever length the header declares.
C16_OneSegmentPerHeader ==
    /\ Len(segments) <= Len(sup.trace)
    /\ \A i \in Reads :
          LET e == sup.trace[i]
          IN  /\ e.at = IF i = 1 THEN 0 ELSE sup.trace[i - 1].pos
              /\ i < Len(sup.trace) => e.tag = "Ok"
              /\ e.tag = "Ok" <=> i <= Len(segments)
              /\ e.tag = "Ok" => segments[i] = e.val /\ e.val.rc = i
    /\ \A i \in HeaderReads :
          LET e == sup.trace[i]
              tag == TagAt(sup.bytes, e.at)
              length == LengthAt(sup.bytes, e.at)
          IN  MagicAt(sup.bytes, e.at) =>
                /\ (tag \in {20, 21, 22, 23}
                      /\ e.at + 13 + length <= Len(sup.bytes)) =>
                      /\ e.parser = TypeOfTag(tag)
                      /\ e.body = SubSeq(sup.bytes, e.at + 14, e.at + 13 + length)
                      /\ e.pos = e.at + 13 + length
                      /\ e.tag = "Ok" => e.val.kind = KindOfTag(tag)
                /\ tag = 128 =>
                      /\ e.tag = "Ok" /\ e.val.kind = "End"
                      /\ e.parser = "none" /\ e.pos = e.at + 13

C16_Witness ==
    /\ Len(sup.trace) = 2 /\ Len(segments) = 2
    /\ TagAt(sup.bytes, 0) = 128 /\ LengthAt(sup.bytes, 0) = 3
    /\ sup.trace[2].at = 13 /\ sup.trace[2].parser = "WDS"
    /\ sup.trace[2].body = <<1, 0, 0, 1, 0, 2, 0, 3, 0, 4>>
    /\ segments[1].kind = "End" /\ segments[2].kind = "Wds"

LastRead == sup.trace[Len(sup.trace)]

\* C17: when a read_segment call fails, the parse fails with the error of
\* that call; after that nothing more happens: no byte is read, no display
\* set is built, and the parser with its segments is never returned.
C17_FailStep ==
    /\ (pc = "read" /\ Len(sup'.trace) > Len(sup.trace)
          /\ sup'.trace[Len(sup'.trace)].tag = "Err") =>
          /\ pc' = "failed"
          /\ parse_error' = sup'.trace[Len(sup'.trace)].val
          /\ display_sets' = << >>
    /\ pc # "failed"

C17_StopsAtFirstError == [][C17_FailStep]_vars

C17_Witness ==
    /\ pc = "failed" /\ parse_error = "ReadInvalidSegment"
    /\ Len(segments) = 1 /\ Len(sup.trace) = 2
    /\ LastRead.tag = "Err" /\ ~MagicAt(sup.bytes, LastRead.at)
    /\ sup.pos + 13 <= Len(sup.bytes)
    /\ display_sets = << >>

\* C18: a body parser given a slice shorter than the body length of the
\* header returns InvalidSegmentDataLength with nothing read.
C18_ShortSlice ==
    (BodyCalled /\ Len(pcall.data) < pcall.header.segment_length) =>
        /\ pcall.result.tag = "Err"
        /\ pcall.result.val = "InvalidSegmentDataLength"
        /\ pcall.result.pos = 0

C18_Witness ==
    /\ BodyCalled /\ pcall.target = "pcs"
    /\ Len(pcall.data) = 11 /\ pcall.header.segment_length = 12
    /\ pcall.result.tag = "Err"
    /\ pcall.result.val = "InvalidSegmentDataLength"

\* C19 as stated: for every segment of a successfully parsed stream the
\* body length its header declares is the number of body bytes its body
\* parser consumed.
C19_BodyLengthConsumed ==
    ParsedStream =>
        \A i \in Reads :
            sup.trace[i].parser # "none" =>
                sup.trace[i].consumed = LengthAt(sup.bytes, sup.trace[i].at)

PdsCalledOk == pcall.target = "pds" /\ pcall.called /\ pcall.result.tag = "Ok"

\* The bytes of a PDS body after palette id and palette version.
PdsRemaining == Len(pcall.data) - 2

\* The k-th 5-byte group of those bytes as a palette entry.
PdsGroup(k) ==
    LET at == 2 + 5 * (k - 1)
    IN  [palette_entry_id |-> pcall.data[at + 1],
         luminance |-> pcall.data[at + 2],
         color_difference_red |-> pcall.data[at + 3],
         color_difference_blue |-> pcall.data[at + 4],
         transparency |-> pcall.data[at + 5]]

PdsGroupsInOrder ==
    \A k \in 1..Len(pcall.result.val.palette_entries) :
        pcall.result.val.palette_entries[k] = PdsGroup(k)

\* C20 as stated: for every successfully parsed PDS, the number of entries
\* times 5 plus 2 is the number of bytes after id and version, and the
\* entries are the consecutive 5-byte groups of those bytes.
C20_Original ==
    PdsCalledOk =>
        /\ Len(pcall.result.val.palette_entries) * 5 + 2 = PdsRemaining
        /\ PdsGroupsInOrder

\* C20, amended: for every successfully parsed PDS with r bytes after id
\* and version, r >= 2 and the number n of entries is (r - 2) / 5 rounded
\* down, so n*5 + 2 <= r <= n*5 + 6; the entries are the first n 5-byte
\* groups (id, Y, Cr, Cb, transparency) of those bytes in order, and the
\* 2 to 6 bytes after them are dropped.
C20_PaletteCount ==
    PdsCalledOk =>
        LET n == Len(pcall.result.val.palette_entries)
        IN  /\ PdsRemaining >= 2
            /\ n * 5 + 2 <= PdsRemaining
            /\ PdsRemaining <= n * 5 + 6
            /\ PdsGroupsInOrder
            /\ pcall.result.val.palette_id = pcall.data[1]
            /\ pcall.result.val.palette_version_number = pcall.data[2]

C20_Witness ==
    /\ PdsCalledOk /\ PdsRemaining = 11
    /\ Len(pcall.result.val.palette_entries) = 1
    /\ pcall.result.val.palette_entries[1].palette_entry_id = pcall.data[3]
    /\ pcall.result.val.palette_entries[1].transparency = pcall.data[7]


(***************************************************************************)
(* C21: a successfully parsed ODS takes width and height from the two      *)
(* big-endian 16-bit values after the 24-bit length when its sequence flag *)
(* byte is 0x80 (First) or 0xC0 (Both); for every other flag byte no       *)
(* width or height bytes are consumed and both are 0.  In all cases        *)
(* object_data is exactly (declared length - 4) bytes, copied from the     *)
(* body directly after the fields read.                                    *)
(***************************************************************************)
OdsCalledOk == pcall.target = "ods" /\ pcall.called /\ pcall.result.tag = "Ok"

\* The flag byte and the 24-bit length as they stand in the body.
OdsFlagByte == pcall.data[4]

OdsDeclared == pcall.data[5] * 65536 + pcall.data[6] * 256 + pcall.data[7]

\* Where object_data starts: after 7 bytes, or 11 with width and height.
OdsDataStart == IF OdsFlagByte \in {128, 192} THEN 11 ELSE 7

C21_OdsFields ==
    OdsCalledOk =>
      LET seg == pcall.result.val
      IN  /\ Len(pcall.data) >= OdsDataStart
          /\ OdsDeclared >= 4
          /\ OdsFlagByte = 128 => seg.last_in_sequence_flag = "First"
          /\ OdsFlagByte = 192 => seg.last_in_sequence_flag = "Both"
          /\ OdsFlagByte = 64 => seg.last_in_sequence_flag = "Last"
          /\ OdsFlagByte \notin {64, 128, 192} =>
                seg.last_in_sequence_flag = "Unknown"
          /\ OdsFlagByte \in {128, 192} =>
                /\ seg.width = pcall.data[8] * 256 + pcall.data[9]
                /\ seg.height = pcall.data[10] * 256 + pcall.data[11]
          /\ OdsFlagByte \notin {128, 192} => seg.width = 0 /\ seg.height = 0
          /\ Len(seg.object_data) = OdsDeclared - 4
          /\ OdsDataStart + OdsDeclared - 4 <= Len(pcall.data)
          /\ \A i \in 1..Len(seg.object_data) :
                seg.object_data[i] = pcall.data[OdsDataStart + i]
          /\ pcall.result.pos = OdsDataStart + OdsDeclared - 4

\* A First ODS with its dimensions and two bytes of object data.
C21_Witness ==
    /\ OdsCalledOk
    /\ OdsFlagByte = 128
    /\ pcall.result.val.width = 101 * 256 + 102
    /\ pcall.result.val.height = 103 * 256 + 104
    /\ pcall.result.val.object_data = <<105, 106>>


(***************************************************************************)
(* C22: a parsed segment header carries, from its 13 bytes in wire order   *)
(* after the 2-byte marker, the presentation timestamp (bytes 2-5), the    *)
(* decoding timestamp (bytes 6-9), the type of the tag (byte 10) and the   *)
(* body length (bytes 11-12), each multi-byte field most significant byte  *)
(* first, the tags 0x14, 0x15, 0x16, 0x17, 0x80 being PDS, ODS, PCS, WDS,  *)
(* END.  A 32-bit value is the tuple of its bytes, most significant first. *)
(***************************************************************************)
HeaderOf(header, bytes, at) ==
    /\ header.presentation_timestamp =
          <<bytes[at + 3], bytes[at + 4], bytes[at + 5], bytes[at + 6]>>
    /\ header.decoding_timestamp =
          <<bytes[at + 7], bytes[at + 8], bytes[at + 9], bytes[at + 10]>>
    /\ header.segment_length = LengthAt(bytes, at)
    /\ TagAt(bytes, at) = 20 => header.segment_type = "PDS"
    /\ TagAt(bytes, at) = 21 => header.segment_type = "ODS"
    /\ TagAt(bytes, at) = 22 => header.segment_type = "PCS"
    /\ TagAt(bytes, at) = 23 => header.segment_type = "WDS"
    /\ TagAt(bytes, at) = 128 => header.segment_type = "END"

C22_HeaderFields ==
    /\ (HeaderCalled /\ pcall.result.tag = "Ok") =>
          /\ Len(pcall.data) >= 13
          /\ HeaderOf(pcall.result.val, pcall.data, 0)
    /\ \A i \in Reads :
          sup.trace[i].header.tag = "Ok" =>
              /\ i \in HeaderReads
              /\ HeaderOf(sup.trace[i].header.val, sup.bytes, sup.trace[i].at)

\* A WDS header with timestamp bytes 01 02 03 04 and length bytes 01 02.
C22_Witness ==
    /\ HeaderCalled /\ pcall.result.tag = "Ok"
    /\ SubSeq(pcall.data, 3, 6) = <<1, 2, 3, 4>>
    /\ SubSeq(pcall.data, 7, 10) = <<80, 71, 80, 71>>
    /\ pcall.data[11] = 23 /\ pcall.data[12] = 1 /\ pcall.data[13] = 2
    /\ pcall.result.val.presentation_timestamp = <<1, 2, 3, 4>>
    /\ pcall.result.val.segment_type = "WDS"
    /\ pcall.result.val.segment_length = 258


(***************************************************************************)
(* C23: a successfully parsed PCS has exactly number_of_composition_objects*)
(* composition objects, in body order.  Each consumes 8 bytes (object id,  *)
(* window id, cropped flag, horizontal and vertical position) and 8 more   *)
(* for the four cropping fields only when its flag byte is exactly 0x40;   *)
(* an object with any other flag byte is Off with all cropping fields 0.   *)
(***************************************************************************)
PcsCalledOk == pcall.target = "pcs" /\ pcall.called /\ pcall.result.tag = "Ok"

\* The 16-bit value of the two bytes after offset p, high byte first.
Word(data, p) == data[p + 1] * 256 + data[p + 2]

\* The offset in the body at which the k-th composition object starts,
\* the objects before it taking 16 bytes if their flag byte is 0x40 and 8
\* otherwise.
RECURSIVE ObjectOffset(_, _)
ObjectOffset(data, k) ==
    IF k = 1 THEN 11
    ELSE LET p == ObjectOffset(data, k - 1)
         IN  p + (IF data[p + 4] = 64 THEN 16 ELSE 8)

ObjectAt(obj, data, p) ==
    /\ obj.object_id = Word(data, p)
    /\ obj.window_id = data[p + 3]
    /\ obj.object_horizontal_position = Word(data, p + 4)
    /\ obj.object_vertical_position = Word(data, p + 6)
    /\ IF data[p + 4] = 64
       THEN /\ obj.object_cropped_flag = "ForceCroppedImage"
            /\ obj.object_cropping_horizontal_position = Word(data, p + 8)
            /\ obj.object_cropping_vertical_position = Word(data, p + 10)
            /\ obj.object_cropping_width = Word(data, p + 12)
            /\ obj.object_cropping_height_position = Word(data, p + 14)
       ELSE /\ obj.object_cropped_flag = "Off"
            /\ obj.object_cropping_horizontal_position = 0
            /\ obj.object_cropping_vertical_position = 0
            /\ obj.object_cropping_width = 0
            /\ obj.object_cropping_height_position = 0

C23_CompositionObjects ==
    PcsCalledOk =>
      LET seg == pcall.result.val
          n   == pcall.data[11]
      IN  /\ Len(pcall.data) >= 11
          /\ seg.number_of_composition_objects = n
          /\ Len(seg.composition_objects) = n
          /\ ObjectOffset(pcall.data, n + 1) <= Len(pcall.data)
          /\ pcall.result.pos = ObjectOffset(pcall.data, n + 1)
          /\ \A k \in 1..n :
                ObjectAt(seg.composition_objects[k], pcall.data,
                         ObjectOffset(pcall.data, k))

\* Two objects: the first with flag byte 0xC0, 8 bytes long and Off, the
\* second with flag byte 0x40 and its cropping fields.
C23_Witness ==
    /\ PcsCalledOk
    /\ pcall.data[11] = 2 /\ pcall.data[15] = 192 /\ pcall.data[23] = 64
    /\ pcall.result.val.composition_objects[1].object_cropped_flag = "Off"
    /\ pcall.result.val.composition_objects[2].object_cropping_width = 30
    /\ pcall.result.pos = 35

(***************************************************************************)
(* C24: a successfully parsed PCS records the frame-rate byte of its body: *)
(* frame_rate equals the fifth body byte, as width, height, composition    *)
(* number, palette update flag and palette id equal their body bytes.      *)
(***************************************************************************)
C24_FrameRateRecorded ==
    PcsCalledOk =>
      LET seg == pcall.result.val
      IN  /\ seg.width = Word(pcall.data, 0)
          /\ seg.height = Word(pcall.data, 2)
          /\ seg.frame_rate = pcall.data[5]
          /\ seg.composition_number = Word(pcall.data, 5)
          /\ seg.palette_update_flag = pcall.data[9]
          /\ seg.palette_id = pcall.data[10]


(***************************************************************************)
(* C25: for a PgsMemoryBuffer, after any sequence of seeks and typed reads,*)
(* a read of n > 0 bytes succeeds exactly when at least n bytes remain at  *)
(* the current position, and then delivers those bytes and advances the    *)
(* position by exactly n; otherwise it fails with the end-of-data error    *)
(* and leaves the position unchanged.  A seek beyond the buffer length     *)
(* succeeds, and from a position beyond the buffer every read of n > 0     *)
(* bytes fails, the position staying beyond it until a seek.               *)
(***************************************************************************)
ReadOps == {"read_u8", "read_u16", "read_u24", "read_u32", "read_bytes",
            "read_into_vec"}

\* The value a read of the bytes bs returns.
ValueOf(op, bs) ==
    CASE op = "read_u8" -> bs[1]
      [] op = "read_u16" -> bs[1] * 256 + bs[2]
      [] op = "read_u24" -> bs[1] * 65536 + bs[2] * 256 + bs[3]
      [] op = "read_u32" -> <<bs[1], bs[2], bs[3], bs[4]>>
      [] OTHER -> bs

C25_Step ==
    LET made  == membuf'.last
        pos   == membuf.position
        len   == Len(membuf.buffer)
    IN  /\ membuf'.buffer = membuf.buffer
        /\ (made.op \in ReadOps /\ made.n > 0) =>
              IF pos + made.n <= len
              THEN /\ made.tag = "Ok"
                   /\ membuf'.position = pos + made.n
                   /\ made.val = ValueOf(made.op, SubSeq(membuf.buffer, pos + 1,
                                                         pos + made.n))
              ELSE /\ made.tag = "Err"
                   /\ made.val = EofError
                   /\ membuf'.position = pos
        /\ made.op = "seek" =>
              /\ made.tag = "Ok"
              /\ membuf'.position = made.n
        /\ (made.op \in ReadOps /\ made.n > 0 /\ pos > len) =>
              made.tag = "Err" /\ membuf'.position > len

C25_BufferReads == [][C25_Step]_vars

\* A read_u16 that failed at a position beyond the end of a 4-byte buffer,
\* reached by a seek.
C25_Witness ==
    /\ Len(membuf.buffer) = 4
    /\ membuf.position = 6
    /\ membuf.last.op = "read_u16"
    /\ membuf.last.tag = "Err"


(***************************************************************************)
(* C26: decode_rle does not return an image when the payload ends inside   *)
(* an escape sequence.  If the last byte is a lone 0x00, or a 0x00 D       *)
(* escape with top bits 01, 10 or 11 lacks its length or colour byte(s),   *)
(* the iteration that meets it ends the call with the end-of-data error,   *)
(* writes no cell, and the call returns that error, not the pixels.        *)
(***************************************************************************)
\* The bytes from the read position on are the start of an escape that
\* the payload ends in the middle of.
CutEscape ==
    /\ Running
    /\ At(1) = 0
    /\ \/ ~HasBytes(2)
       \/ /\ At(2) # 0
          /\ \/ TopBits \in {1, 2} /\ ~HasBytes(3)
             \/ TopBits = 3 /\ ~HasBytes(4)

C26_Step ==
    CutEscape =>
        /\ rle'.status = "Err"
        /\ rle'.pixels = rle.pixels
        /\ written' = written
        /\ RleResult(rle').tag = "Err"
        /\ RleResult(rle').val = "File(UnexpectedEof)"
        /\ decode_rle(rle_in.pds, rle_in.ods, rle_in.gray).tag = "Err"

C26_CutEscapeFails == [][C26_Step]_vars

\* One pixel decoded, then 0x00 0xC0 and its length byte but no colour
\* byte: the call has failed.
C26_Witness ==
    /\ Data = <<2, 0, 192, 2>>
    /\ written # {}
    /\ rle.status = "Err"
    /\ rle.pos = 4


(***************************************************************************)
(* C27: PgsParser::parse succeeds only when the input is a non-empty       *)
(* concatenation of whole segments.  A zero-byte input, or an input that   *)
(* ends partway through a 13-byte header or partway through a declared     *)
(* body, fails with the end-of-data error File(UnexpectedEof) instead of   *)
(* yielding the segments read so far or an empty result.                   *)
(***************************************************************************)
\* The read at position at finds fewer than 13 bytes left (none at all in
\* an empty file).
CutHeader(at) == at + 13 > Len(sup.bytes)

\* The read at position at finds a header of a segment with a body, and
\* fewer bytes after it than the header declares.
CutBody(at) ==
    /\ at + 13 <= Len(sup.bytes)
    /\ MagicAt(sup.bytes, at)
    /\ TagAt(sup.bytes, at) \in {20, 21, 22, 23}
    /\ at + 13 + LengthAt(sup.bytes, at) > Len(sup.bytes)

\* The bytes a whole segment starting at position at takes: the header,
\* and the declared body unless it is an END.
WholeSegment(at) ==
    13 + (IF TagAt(sup.bytes, at) = 128 THEN 0 ELSE LengthAt(sup.bytes, at))

C27_TruncatedInputFails ==
    /\ \A i \in Reads :
          (CutHeader(sup.trace[i].at) \/ CutBody(sup.trace[i].at)) =>
              /\ sup.trace[i].tag = "Err"
              /\ sup.trace[i].val = EofError
              /\ i = Len(sup.trace)
              /\ pc = "failed"
              /\ parse_error = EofError
              /\ display_sets = << >>
    /\ ParsedStream =>
          /\ Len(sup.bytes) > 0
          /\ Len(sup.trace) >= 1
          /\ Len(segments) = Len(sup.trace)
          /\ sup.trace[1].at = 0
          /\ \A i \in Reads :
                /\ sup.trace[i].tag = "Ok"
                /\ sup.trace[i].at + 13 <= Len(sup.bytes)
                /\ sup.trace[i].pos =
                      sup.trace[i].at + WholeSegment(sup.trace[i].at)
                /\ i < Len(sup.trace) => sup.trace[i + 1].at = sup.trace[i].pos
          /\ sup.trace[Len(sup.trace)].pos = Len(sup.bytes)

\* An END segment followed by a PCS cut 7 bytes into its body: the second
\* read fails and so does parse.
C27_Witness ==
    /\ Len(sup.bytes) = 33
    /\ Len(sup.trace) = 2
    /\ CutBody(sup.trace[2].at)
    /\ pc = "failed"
    /\ parse_error = EofError


(***************************************************************************)
(* C28: the RLE colour index selects a palette entry by its position in    *)
(* the PDS entry list, not by its palette_entry_id.  The colour for index  *)
(* i is computed from the i-th entry, the i-th 5-byte group parsed from    *)
(* the PDS body, whatever id it carries, and the palette_entry_id values   *)
(* never influence the colour.                                             *)
(***************************************************************************)
LookupCalled == lookup.fn # "none"

\* The colour of one palette entry in the mode of the lookup.
ColourOf(entry, gray) ==
    IF gray THEN calc_gray(entry.transparency, entry.luminance)
    ELSE get_argb(entry.luminance, entry.color_difference_blue,
                  entry.color_difference_red, entry.transparency)

\* The call of the lookup made again on another palette.
LookupAgain(pds) ==
    CASE lookup.fn = "get_gray_color" -> get_gray_color(lookup.color, pds)
      [] lookup.fn = "get_argb_color" -> get_argb_color(lookup.color, pds)
      [] OTHER -> get_pixel_color(lookup.color, pds, lookup.gray)

\* The palette with every palette_entry_id replaced by id.
Relabelled(pds, id) ==
    [palette_entries |->
        [k \in 1..Len(pds.palette_entries) |->
            [pds.palette_entries[k] EXCEPT !.palette_entry_id = id]]]

\* A PDS body holding the entries of the palette in order: palette id and
\* version, five bytes an entry, and the two bytes the count leaves over.
EntryBytes(e) ==
    <<e.palette_entry_id, e.luminance, e.color_difference_red,
      e.color_difference_blue, e.transparency>>

BodyOf(pds) ==
    <<0, 0>> \o Concat([k \in 1..Len(pds.palette_entries) |->
                          EntryBytes(pds.palette_entries[k])]) \o <<9, 9>>

ParsedBody(pds) ==
    PgsPdsSegment_from_data(BlockHeader("pds", Len(BodyOf(pds))), BodyOf(pds), TRUE)

C28_IndexIsPosition ==
    LookupCalled =>
      LET entries == lookup.pds.palette_entries
      IN  /\ lookup.color < Len(entries) =>
                lookup.result = ColourOf(entries[lookup.color + 1], lookup.gray)
          /\ \A id \in 0..MaxIdx :
                lookup.result = LookupAgain(Relabelled(lookup.pds, id))
          /\ ParsedBody(lookup.pds).tag = "Ok"
          /\ ParsedBody(lookup.pds).val.palette_entries = entries
          /\ lookup.result = LookupAgain(ParsedBody(lookup.pds).val)

\* Index 0 in a palette whose first entry has id 1 and whose second has
\* id 0: the grey of the first entry, 255 - 128 * 150 / 255 = 180.
C28_Witness ==
    /\ lookup.fn = "get_gray_color"
    /\ lookup.color = 0
    /\ Len(lookup.pds.palette_entries) = 2
    /\ lookup.pds.palette_entries[1].palette_entry_id = 1
    /\ lookup.pds.palette_entries[2].palette_entry_id = 0
    /\ lookup.result = <<0, 180, 180, 180>>


(***************************************************************************)
(* C30: PgsPdsSegment::from_data never returns a parsed PDS for a body     *)
(* with fewer than 2 bytes after palette id and version, a palette with    *)
(* no entries in particular.  The count (remaining - 2) / 5 is computed in *)
(* unsigned 32-bit arithmetic; with remaining 0 or 1 it underflows: a      *)
(* panic, or a wrapped count whose first entry read fails with the         *)
(* end-of-data error; never a PDS with zero entries.                       *)
(***************************************************************************)
PdsCalled == pcall.target = "pds" /\ pcall.called

\* What from_data gives for a body, id and version read, with under 2
\* bytes after them.
UnderflowOutcome(tag, val, checks) ==
    IF checks THEN tag = "Panic"
    ELSE tag = "Err" /\ val = EofError

C30_ShortPaletteNeverParses ==
    /\ (PdsCalled /\ PdsRemaining < 2) =>
          /\ pcall.result.tag # "Ok"
          /\ (Len(pcall.data) >= 2 /\ ~TooShort(pcall.header, pcall.data)) =>
                UnderflowOutcome(pcall.result.tag, pcall.result.val, pcall.checks)
    /\ \A i \in Reads :
          (sup.trace[i].parser = "PDS" /\ Len(sup.trace[i].body) \in {2, 3}) =>
              /\ UnderflowOutcome(sup.trace[i].tag, sup.trace[i].val, sup.checks)
              /\ pc \in {"failed", "panicked"}

\* A body of palette id and version alone, in a build without overflow
\* checks: the call fails with the end-of-data error.
C30_Witness ==
    /\ PdsCalled
    /\ pcall.data = <<5, 6>>
    /\ ~pcall.checks
    /\ pcall.header.segment_length = 2
    /\ pcall.result.tag = "Err"
    /\ pcall.result.val = EofError


(***************************************************************************)
(* C29: decode_rle always terminates.  Every iteration of its main loop    *)
(* consumes at least one payload byte; the read position never decreases   *)
(* and never exceeds the payload length; each run loop writes at most its  *)
(* count of cells, a count of at most 0x3FFF; so the loop runs at most     *)
(* len(payload) times, and the call ends by exhaustion of the payload, by  *)
(* a read error or by an index out of bounds.  Stated of each step of the  *)
(* loop: the position is the variant, the iteration count its witness.     *)
(***************************************************************************)
Ended == rle.status \in {"Ok", "Err", "Panic"}

C29_Step ==
    /\ rle.pos <= Len(Data)
    /\ rle.iterations <= rle.pos
    /\ rle.iterations <= Len(Data)
    /\ rle.count <= 16383
    /\ Running =>
          /\ rle'.pos >= rle.pos + 1
          /\ rle'.pos <= Len(Data)
          /\ rle'.iterations = rle.iterations + 1
          /\ rle'.count <= 16383
          /\ Cardinality(written') - Cardinality(written) <= rle'.count
          /\ rle'.status \in {"loop", "Ok", "Err", "Panic"}
    /\ (rle.status = "loop" /\ ~Running) =>
          /\ rle'.status = "Ok"
          /\ rle'.pos = rle.pos
          /\ rle'.iterations = rle.iterations
    /\ Ended => rle' = rle

C29_Terminates == [][C29_Step]_vars

\* The longest run, 00 FF FF c with count 0x3FFF, met in the first
\* iteration of a call that has ended.
C29_Witness ==
    /\ Ended
    /\ Len(Data) = 4
    /\ rle.count = 16383
    /\ rle.iterations = 1
    /\ rle.pos = 4

====
